---------------------------- MODULE Spec2Model ----------------------------
(***************************************************************************)
(* A model of the pyrge 2D game engine: tweens and the Tweener that holds  *)
(* them (tween.py, entity.py), entity motion (Entity.update) and collision *)
(* detection and response (Image.overlap, Image.collide).                  *)
(*                                                                         *)
(* Units.  Game.elapsed is in milliseconds.  All quantities are kept as    *)
(* exact integers:                                                         *)
(*   - a tween's duration is stored in milliseconds (duration * 1000), its *)
(*     percent as the numerator over that duration (percent = 1.0 iff      *)
(*     percent = duration), its value multiplied by the duration;          *)
(*   - an entity's acceleration is in px/s^2, its velocity in 1/1000 px/s, *)
(*     its position in 1/1000000 px, so that v += a * dt and x += v * dt   *)
(*     with dt = elapsed / 1000.0 are exact.                               *)
(***************************************************************************)
EXTENDS Integers, Sequences, FiniteSets, TLC

\* ------------------------------------------------------------------ bounds
MaxTweens == 2
MaxDuration == 2
MaxTicks == 2

\* --------------------------------------------------------------- constants
ONESHOT == 0
LOOP == 1
PERSIST == 2
\* milliseconds per second (dt = Game.elapsed / 1000.0)
Milli == 1000
Micro == Milli * Milli

VARIABLES
    tw,       \* the Tween objects: id -> tween
    tweens,   \* Tweener.tweens of entity "a": a list of <<tween id, type>>
    fired,    \* per tween, the onComplete calls made by the last operation
    calls,    \* per tween, the onComplete calls since its last reset()
    ent,      \* the game objects "a" and "b"
    scroll,   \* Game.scroll
    hooks,    \* the hooks the last operation invoked, in order
    result,   \* what the last overlap / collide call returned
    ticks,    \* the number of entity updates so far
    lastOp,   \* the last operation
    qt,       \* a QuadTree, its items and the last hit query
    world,    \* the World: camera, focus and follow settings
    loop,     \* the GameLoop: handlers, updaters and pending events
    pt        \* a Vector and the result of the last call on it

tweenVars == <<tw, tweens, fired, calls>>
entVars == <<ent, scroll, hooks, result, ticks>>
sysVars == <<qt, world, loop, pt>>
vars == <<tw, tweens, fired, calls, ent, scroll, hooks, result, ticks, lastOp,
          qt, world, loop, pt>>

\* the parts of the engine a run does not use
NoQuadTree == qt = <<>>
NoWorld == world = <<>>
NoLoop == loop = <<>>
NoVector == pt = <<>>
Unused == NoQuadTree /\ NoWorld /\ NoLoop /\ NoVector

\* the Tween objects
TweenIds == {1, 2}
Policies == {ONESHOT, LOOP, PERSIST}
Durations == 1..MaxDuration
\* Game.elapsed in a frame, in ms: up to the longest duration
Elapsed == 0..MaxDuration

\* ------------------------------------------------------------------ helpers

Abs(n) == IF n < 0 THEN -n ELSE n

\* util.sign
Sign(n) == IF n = 0 THEN 0 ELSE IF n > 0 THEN 1 ELSE -1

\* the integer a pygame Rect keeps of a float coordinate n / d (toward zero)
Trunc(n, d) == IF n >= 0 THEN n \div d ELSE -((-n) \div d)

\* Op applied to the value of x, computed once
Bind(x, Op(_)) == CHOOSE r \in {Op(v) : v \in {x}} : TRUE

None == "None"
Objects == {"a", "b"}

\* ------------------------------------------------------------------ Image

\* the names animations are added under; _animations[n] is <<>> when the
\* dictionary has no key n
AnimationNames == {"walk", "blink"}

\* Image.__init__ followed by Entity.__init__ (kind "Entity") or not ("Image"):
\* position (x, y) and size (w, h) in px
NewObject(kind, x, y, w, h) ==
    [kind |-> kind,
     x |-> x * Micro, y |-> y * Micro, w |-> w, h |-> h,
     pixw |-> w, pixh |-> h,
     rect |-> [left |-> x - w \div 2, top |-> y - h \div 2, w |-> w, h |-> h],
     angle |-> 0, collidable |-> TRUE, alive |-> TRUE, visible |-> TRUE,
     animated |-> FALSE, nframes |-> 0, currentFrame |-> 0,
     currentAnimation |-> None, animations |-> [n \in AnimationNames |-> <<>>],
     scrollx |-> 1, scrolly |-> 1,
     maxVelocity |-> <<>>, maxAngularVelocity |-> 0,
     vx |-> 0, vy |-> 0, ax |-> 0, ay |-> 0, dragx |-> 0, dragy |-> 0,
     angular |-> 0, angularAcceleration |-> 0,
     rotating |-> FALSE, fixed |-> FALSE,
     hasHitbox |-> FALSE, hitbox |-> [left |-> 0, top |-> 0, w |-> 0, h |-> 0],
     hasMask |-> FALSE, mask |-> {},
     parent |-> None, parentx |-> 0, parenty |-> 0, children |-> <<>>,
     onMoveX |-> "none"]

\* Image.screenX, Image.screenY; parentx and parenty are the x and y of the
\* object _parent refers to
ScreenXNoScrollFactor(e, sc) ==
    e.x - sc[1] + (IF e.parent # None THEN e.parentx ELSE 0)

ScreenX(e, sc) ==
    e.x - sc[1] * e.scrollx + (IF e.parent # None THEN e.parentx ELSE 0)

ScreenY(e, sc) ==
    e.y - sc[2] * e.scrolly + (IF e.parent # None THEN e.parenty ELSE 0)

\* Image._recenter: rect.center = (screenX, screenY)
Recenter(e, sc) ==
    [e EXCEPT !.rect.left = Trunc(ScreenX(e, sc), Micro) - e.rect.w \div 2,
              !.rect.top = Trunc(ScreenY(e, sc), Micro) - e.rect.h \div 2]

RectRight(r) == r.left + r.w
RectBottom(r) == r.top + r.h

\* Image.kill
KillObjectKeepVisible(e) == [e EXCEPT !.alive = FALSE]

KillObject(e) == [e EXCEPT !.alive = FALSE, !.visible = FALSE]

\* the size of Game.Transform.rotate(pixels, angle); the angle is kept at a
\* multiple of 90 degrees by the inputs (see FrameTimes)
RotatedSize(w, h, angle) ==
    IF angle % (180 * Micro) = 0 THEN <<w, h>> ELSE <<h, w>>

\* the length of the frame list Image.update goes through:
\* len(_animations[currentAnimation]) or len(_frames)
ActiveLength(e) ==
    IF e.currentAnimation # None THEN Len(e.animations[e.currentAnimation])
    ELSE e.nframes

\* currentFrame += 1, then currentFrame %= the length of the active list; with
\* no such list, or an empty one, the second statement raises
AdvanceFrame(e) ==
    IF ActiveLength(e) = 0 THEN e.currentFrame + 1
    ELSE (e.currentFrame + 1) % ActiveLength(e)

\* Image.update: the next frame of the animation is shown
NextFrameOfAllFrames(e, sc) ==
    Bind(RotatedSize(e.pixw, e.pixh, e.angle), LAMBDA sz :
    Bind([e EXCEPT !.currentFrame = (e.currentFrame + 1) % e.nframes,
                   !.w = sz[1], !.h = sz[2],
                   !.rect.w = sz[1], !.rect.h = sz[2]], LAMBDA e1 :
        Recenter(e1, sc)))

NextFrame(e, sc) ==
    Bind(RotatedSize(e.pixw, e.pixh, e.angle), LAMBDA sz :
    Bind([e EXCEPT !.currentFrame = AdvanceFrame(e),
                   !.w = sz[1], !.h = sz[2],
                   !.rect.w = sz[1], !.rect.h = sz[2]], LAMBDA e1 :
        Recenter(e1, sc)))

\* Image.update
ImageUpdate(e, sc) == IF e.alive /\ e.animated THEN NextFrame(e, sc) ELSE e

\* ----------------------------------------------------------------- Entity

\* the drag of Entity.update on one axis: v in 1/1000 px/s, drag in px/s
DragAxis(v, drag, acc) ==
    IF drag # 0 /\ acc = 0
    THEN IF Abs(v) > Abs(drag * Milli)
         THEN v - drag * Milli * Sign(v)
         ELSE 0
    ELSE v

\* Point.__nonzero__ of maxVelocity (None is <<>>)
MaxVelocitySet(e) ==
    e.maxVelocity # <<>> /\ (e.maxVelocity[1] # 0 \/ e.maxVelocity[2] # 0)

\* Entity._set_velocity
SetVelocityNoClamp(e, vx, vy) == [e EXCEPT !.vx = vx, !.vy = vy]

SetVelocity(e, vx, vy) ==
    IF MaxVelocitySet(e)
    THEN LET mx == e.maxVelocity[1] * Milli
             my == e.maxVelocity[2] * Milli
         IN  [e EXCEPT !.vx = IF Abs(mx) < Abs(vx) THEN mx * Sign(vx) ELSE vx,
                       !.vy = IF Abs(my) < Abs(vy) THEN my * Sign(vy) ELSE vy]
    ELSE [e EXCEPT !.vx = vx, !.vy = vy]

\* Entity.update: the clamp after the acceleration step
ClampVelocity(e) ==
    IF e.maxVelocity # <<>>
    THEN [e EXCEPT !.vx = IF e.vx > e.maxVelocity[1] * Milli
                          THEN e.maxVelocity[1] * Milli ELSE e.vx,
                   !.vy = IF e.vy > e.maxVelocity[2] * Milli
                          THEN e.maxVelocity[2] * Milli ELSE e.vy]
    ELSE e

\* Entity._set_angularvelocity
SetAngular(e, val) ==
    IF e.maxAngularVelocity # 0 /\ Abs(e.maxAngularVelocity * Milli) < Abs(val)
    THEN [e EXCEPT !.angular = e.maxAngularVelocity * Milli * Sign(val)]
    ELSE [e EXCEPT !.angular = val]

\* Entity.update: the rotation step, dt = ms / 1000.0
Rotate(e, ms, sc) ==
    IF (e.angle # 0 /\ e.rotating) \/ e.angular # 0 \/ e.angularAcceleration # 0
    THEN Bind(SetAngular(e, e.angular + e.angularAcceleration * ms), LAMBDA e1 :
         Bind(IF e1.maxAngularVelocity # 0
                 /\ e1.angular > e1.maxAngularVelocity * Milli
              THEN SetAngular(e1, e1.maxAngularVelocity * Milli)
              ELSE e1, LAMBDA e2 :
         Bind(e2.angle + e2.angular * ms, LAMBDA angle :
         Bind(RotatedSize(e2.pixw, e2.pixh, angle), LAMBDA sz :
             [e2 EXCEPT !.angle = angle,
                        !.rect = [left |-> 0, top |-> 0, w |-> sz[1], h |-> sz[2]]]))))
    ELSE e

\* Entity.update: the drag step
Drag(e) ==
    [e EXCEPT !.vx = DragAxis(e.vx, e.dragx, e.ax),
              !.vy = DragAxis(e.vy, e.dragy, e.ay)]

\* Entity.update: velocity += acceleration * dt, then the clamp
Accelerate(e, ms) ==
    Bind(SetVelocity(e, e.vx + e.ax * ms, e.vy + e.ay * ms), LAMBDA e1 :
        ClampVelocity(e1))

\* Entity.update: x += velocity.x * dt and y += velocity.y * dt
MoveX(e, ms, sc) == Bind([e EXCEPT !.x = @ + e.vx * ms], LAMBDA e1 : Recenter(e1, sc))
MoveYByVx(e, ms, sc) == Bind([e EXCEPT !.y = @ + e.vx * ms], LAMBDA e1 : Recenter(e1, sc))
MoveY(e, ms, sc) == Bind([e EXCEPT !.y = @ + e.vy * ms], LAMBDA e1 : Recenter(e1, sc))

\* what a subclass makes onMoveX set: velocity.y, in px/s, or y, in px
HookVy == 25
HookY == 10

\* Entity.onMoveX as a subclass overrides it: nothing, velocity.y = HookVy, or
\* y = HookY
OnMoveX(e, sc) ==
    IF e.onMoveX = "setVy" THEN [e EXCEPT !.vy = HookVy * Milli]
    ELSE IF e.onMoveX = "setY" THEN Recenter([e EXCEPT !.y = HookY * Micro], sc)
    ELSE e

\* Entity.update: the motion step, dt = ms / 1000.0; the entity, the hooks
\* invoked and the position each observes
MoveHooksLast(e, ms, sc) ==
    Bind(Drag(e), LAMBDA e1 :
    Bind(Accelerate(e1, ms), LAMBDA e2 :
    Bind(MoveX(e2, ms, sc), LAMBDA e3 :
    Bind(MoveY(e3, ms, sc), LAMBDA e4 :
    Bind(OnMoveX(e4, sc), LAMBDA e5 :
        [e |-> Rotate(e5, ms, sc),
         hooks |-> <<"onMoveX", "onMoveY", "onMove">>,
         seen |-> << <<e4.x, e4.y>>, <<e5.x, e5.y>>, <<e5.x, e5.y>> >>])))))

Move(e, ms, sc) ==
    Bind(Drag(e), LAMBDA e1 :
    Bind(Accelerate(e1, ms), LAMBDA e2 :
    Bind(MoveX(e2, ms, sc), LAMBDA e3 :
    Bind(OnMoveX(e3, sc), LAMBDA e3h :
    Bind(MoveY(e3h, ms, sc), LAMBDA e4 :
        [e |-> Rotate(e4, ms, sc),
         hooks |-> <<"onMoveX", "onMoveY", "onMove">>,
         seen |-> << <<e3.x, e3.y>>, <<e4.x, e4.y>>, <<e4.x, e4.y>> >>])))))

\* Entity.update: what follows the motion step
AfterMove(m, sc) ==
    Bind(Recenter(m.e, sc), LAMBDA e1 :
        [e |-> ImageUpdate(e1, sc), hooks |-> m.hooks, seen |-> m.seen])

NoMove(e) == [e |-> e, hooks |-> <<>>, seen |-> <<>>]

\* Entity.update in a frame with Game.elapsed = ms
EntityUpdateIgnoreAlive(e, ms, sc) ==
    Bind(IF ~e.fixed /\ ms > 1 THEN Move(e, ms, sc) ELSE NoMove(e), LAMBDA m :
        AfterMove(m, sc))

EntityUpdateIgnoreFixed(e, ms, sc) ==
    Bind(IF e.alive /\ ms > 1 THEN Move(e, ms, sc) ELSE NoMove(e), LAMBDA m :
        AfterMove(m, sc))

EntityUpdate(e, ms, sc) ==
    Bind(IF e.alive /\ ~e.fixed /\ ms > 1 THEN Move(e, ms, sc) ELSE NoMove(e), LAMBDA m :
        AfterMove(m, sc))

\* Image.update or Entity.update, by the object's class
ObjectUpdate(e, ms, sc) ==
    IF e.kind = "Entity" THEN EntityUpdate(e, ms, sc)
    ELSE [e |-> ImageUpdate(e, sc), hooks |-> <<>>]

\* -------------------------------------------------------------- collisions

\* pygame Rect.colliderect
CollideRect(r, q) ==
    /\ r.left < RectRight(q) /\ RectRight(r) > q.left
    /\ r.top < RectBottom(q) /\ RectBottom(r) > q.top

\* Image.overlap: the hitbox attribute if the object has one, else its rect
Box(e) == IF e.hasHitbox THEN e.hitbox ELSE e.rect

\* pygame.sprite.collide_mask(left, right): the masks are laid at the corners
\* of the two rects; a point of the overlap (here "Point"), or None
CollideMask(e, o) ==
    LET dx == o.rect.left - e.rect.left
        dy == o.rect.top - e.rect.top
    IN  IF \E p \in e.mask : <<p[1] - dx, p[2] - dy>> \in o.mask
        THEN "Point" ELSE None

\* the truth value Python gives a result
Truthy(r) == r \in {"True", "Point"}

\* Image.overlap(other, checkAlive) of two sprites: "True", "False", the
\* result of collide_mask, or the error raised
OverlapIgnoreMask(E, s, o, checkAlive) ==
    IF checkAlive /\ E[s].alive /\ o = None
    THEN "AttributeError"
    ELSE IF checkAlive /\ (~E[s].alive \/ ~E[o].alive)
    THEN "False"
    ELSE IF s = o \/ o = None
    THEN "False"
    ELSE IF CollideRect(Box(E[s]), Box(E[o])) THEN "True" ELSE "False"

Overlap(E, s, o, checkAlive) ==
    IF checkAlive /\ E[s].alive /\ o = None
    THEN "AttributeError"
    ELSE IF checkAlive /\ (~E[s].alive \/ ~E[o].alive)
    THEN "False"
    ELSE IF s = o \/ o = None
    THEN "False"
    ELSE IF ~(E[s].hasMask /\ E[o].hasMask)
    THEN IF CollideRect(Box(E[s]), Box(E[o])) THEN "True" ELSE "False"
    ELSE IF CollideRect(Box(E[s]), Box(E[o])) THEN CollideMask(E[s], E[o])
    ELSE "False"

\* Image.onCollision: the hooks run and the value returned
HitHooks(dirs) ==
    SelectSeq(<<"hitLeft", "hitRight", "hitTop", "hitBottom">>,
              LAMBDA hk : hk \in dirs)

\* the hit hooks of the flagged sides, then the onCollision of the next class
\* (a mixin's response; an AttributeError when there is none is passed over)
OnCollisionUnguarded(e, dirs) ==
    [hooks |-> HitHooks(dirs) \o <<"super.onCollision">>, ret |-> "True"]

OnCollision(e, dirs) ==
    IF e.collidable /\ e.alive
    THEN [hooks |-> HitHooks(dirs) \o <<"super.onCollision">>, ret |-> "True"]
    ELSE [hooks |-> <<>>, ret |-> "False"]

\* selfvx > othervx in Image.collide. The assignment
\*     selfvx,selfvy = self.velocity if hasattr(self, 'velocity') else 0,0
\* binds selfvx to the whole velocity Vector (or to 0) and selfvy to 0. Vector
\* defines no ordering, so Python 2 orders two Vectors by their addresses
\* (addr: id(self.velocity) > id(other.velocity)) and any number below any
\* Vector.
VxGreater(e, o, addr) ==
    IF e.kind = "Entity" /\ o.kind = "Entity" THEN addr
    ELSE e.kind = "Entity" /\ o.kind # "Entity"

\* selfvx < othervx
VxLess(e, o, addr) ==
    IF e.kind = "Entity" /\ o.kind = "Entity" THEN ~addr
    ELSE e.kind # "Entity" /\ o.kind = "Entity"

\* selfvy > othervy and selfvy < othervy: both are the number 0
VyGreater(e, o) == 0 > 0
VyLess(e, o) == 0 < 0

\* the directions Image.collide passes to onCollision, as the set of the hooks
\* they select
Sides(e, o, addr) ==
    {hk \in {"hitLeft", "hitRight", "hitTop", "hitBottom"} :
        \/ hk = "hitRight"
           /\ (VxGreater(e, o, addr)
               \/ (e.x < o.x /\ RectRight(e.rect) > o.rect.left))
        \/ hk = "hitLeft"
           /\ (VxLess(e, o, addr)
               \/ (e.x > o.x /\ e.rect.left < RectRight(o.rect)))
        \/ hk = "hitBottom"
           /\ (VyGreater(e, o)
               \/ (e.y < o.y /\ RectBottom(e.rect) > o.rect.top))
        \/ hk = "hitTop"
           /\ (VyLess(e, o)
               \/ (e.y > o.y /\ e.rect.top < RectBottom(o.rect)))}

NoResult ==
    [op |-> "none", self |-> None, other |-> None, ret |-> None,
     dispatched |-> FALSE, sides |-> {}]

\* Image.collide(other, kill, checkAlive): the objects, the hooks run and the
\* result
CollideObjects(E, s, o, kill, checkAlive, addr) ==
    LET ov == Overlap(E, s, o, checkAlive)
    IN  IF Truthy(ov)
        THEN LET dirs == Sides(E[s], E[o], addr)
                 E1 == IF kill
                       THEN [E EXCEPT ![s] = KillObject(E[s]), ![o] = KillObject(E[o])]
                       ELSE E
                 r == OnCollision(E1[s], dirs)
             IN  [E |-> E1, hooks |-> r.hooks,
                  result |-> [op |-> "collide", self |-> s, other |-> o,
                              ret |-> r.ret, dispatched |-> TRUE, sides |-> dirs]]
        ELSE [E |-> E, hooks |-> <<>>,
              result |-> [op |-> "collide", self |-> s, other |-> o,
                          ret |-> IF ov \in {"False", None} THEN None ELSE ov,
                          dispatched |-> FALSE, sides |-> {}]]

\* ------------------------------------------------------------------- Tween

\* tweenfunc.Linear, with percent = pct / dur and the result multiplied by dur
Linear(s, e, pct, dur) == s * dur + (e - s) * pct

\* Tween.__init__
NewTween(s, e, dur) ==
    [startval |-> s, endval |-> e, duration |-> dur,
     value |-> s * dur, percent |-> 0, running |-> FALSE, complete |-> "none"]

\* Tween.start
TweenStartNoGuard(t) == [t EXCEPT !.running = TRUE]

TweenStart(t) ==
    IF ~t.running /\ t.percent < t.duration
    THEN [t EXCEPT !.running = TRUE]
    ELSE t

\* Tween.stop
TweenStop(t) == IF t.running THEN [t EXCEPT !.running = FALSE] ELSE t

\* Tween.reset
TweenResetKeepPercent(t) ==
    [t EXCEPT !.running = FALSE, !.value = t.startval * t.duration]

TweenReset(t) ==
    [t EXCEPT !.running = FALSE, !.percent = 0, !.value = t.startval * t.duration]

\* Tween.update with Game.elapsed = dt: the new tween, and whether onComplete ran
TweenUpdateAlways(t, dt) ==
    LET p == t.percent + dt
    IN  IF p >= t.duration
        THEN [t |-> [t EXCEPT !.value = t.endval * t.duration,
                                !.percent = t.duration,
                                !.running = FALSE],
              complete |-> TRUE]
        ELSE [t |-> [t EXCEPT !.percent = p,
                                !.value = Linear(t.startval, t.endval, p, t.duration)],
              complete |-> FALSE]

TweenUpdate(t, dt) ==
    IF t.running
    THEN LET p == t.percent + dt
         IN  IF p >= t.duration
             THEN [t |-> [t EXCEPT !.value = t.endval * t.duration,
                                     !.percent = t.duration,
                                     !.running = FALSE],
                   complete |-> TRUE]
             ELSE [t |-> [t EXCEPT !.percent = p,
                                     !.value = Linear(t.startval, t.endval, p, t.duration)],
                   complete |-> FALSE]
    ELSE [t |-> t, complete |-> FALSE]

\* the value Tween.update returns
TweenUpdateResult(t, dt) == TweenUpdate(t, dt).t.value

\* ----------------------------------------------------------------- Tweener

RECURSIVE SelectPairs(_, _)
SelectPairs(s, id) ==
    IF s = <<>> THEN <<>>
    ELSE IF Head(s)[1] # id THEN <<Head(s)>> \o SelectPairs(Tail(s), id)
         ELSE SelectPairs(Tail(s), id)

\* Tweener.removeTween
RemoveTween(s, id) == SelectPairs(s, id)

\* one pair of the snapshot in Tweener.update; st = [tw, tweens, fired, calls]
TweenerStepSameFrame(st, tt, dt) ==
    LET id == tt[1]
        tp == tt[2]
        u  == TweenUpdate(st.tw[id], dt)
        s1 == [st EXCEPT !.tw[id] = u.t,
                         !.fired[id] = @ + (IF u.complete THEN 1 ELSE 0),
                         !.calls[id] = @ + (IF u.complete THEN 1 ELSE 0)]
        t  == s1.tw[id]
    IN  IF t.percent = t.duration /\ ~t.running
        THEN IF tp = ONESHOT
             THEN [s1 EXCEPT !.tweens = RemoveTween(s1.tweens, id)]
             ELSE IF tp = LOOP
                  THEN [s1 EXCEPT !.tw[id] = TweenStart(TweenReset(t)),
                                  !.calls[id] = 0]
                  ELSE s1
        ELSE s1

TweenerStep(st, tt, dt) ==
    LET id == tt[1]
        tp == tt[2]
        t  == st.tw[id]
    IN  IF t.percent = t.duration /\ ~t.running
        THEN IF tp = ONESHOT
             THEN [st EXCEPT !.tweens = RemoveTween(st.tweens, id)]
             ELSE IF tp = LOOP
                  THEN [st EXCEPT !.tw[id] = TweenStart(TweenReset(t)),
                                  !.calls[id] = 0]
                  ELSE st
        ELSE LET u == TweenUpdate(t, dt)
             IN  [st EXCEPT !.tw[id] = u.t,
                            !.fired[id] = @ + (IF u.complete THEN 1 ELSE 0),
                            !.calls[id] = @ + (IF u.complete THEN 1 ELSE 0)]

\* the loop of Tweener.update over the snapshot self.tweens[:]
RECURSIVE TweenerLoop(_, _, _)
TweenerLoop(snap, st, dt) ==
    IF snap = <<>> THEN st
    ELSE Bind(TweenerStep(st, Head(snap), dt), LAMBDA s1 :
             TweenerLoop(Tail(snap), s1, dt))

NoFired == [i \in TweenIds |-> 0]

\* ----------------------------------------------------------------- actions

\* tween.start() called directly
Start(i) ==
    /\ tw' = [tw EXCEPT ![i] = TweenStart(tw[i])]
    /\ fired' = NoFired
    /\ lastOp' = [op |-> "start", n |-> i, o |-> ""]
    /\ UNCHANGED <<sysVars, tweens, calls, entVars>>

\* tween.stop() called directly
Stop(i) ==
    /\ tw' = [tw EXCEPT ![i] = TweenStop(tw[i])]
    /\ fired' = NoFired
    /\ lastOp' = [op |-> "stop", n |-> 0, o |-> ""]
    /\ UNCHANGED <<sysVars, tweens, calls, entVars>>

\* tween.reset() called directly
Reset(i) ==
    /\ tw' = [tw EXCEPT ![i] = TweenReset(tw[i])]
    /\ calls' = [calls EXCEPT ![i] = 0]
    /\ fired' = NoFired
    /\ lastOp' = [op |-> "reset", n |-> i, o |-> ""]
    /\ UNCHANGED <<sysVars, tweens, entVars>>

\* tween.update() called directly, in a frame with Game.elapsed = dt
Update(i, dt) ==
    LET u == TweenUpdate(tw[i], dt)
    IN  /\ tw' = [tw EXCEPT ![i] = u.t]
        /\ fired' = [NoFired EXCEPT ![i] = IF u.complete THEN 1 ELSE 0]
        /\ calls' = [calls EXCEPT ![i] = @ + (IF u.complete THEN 1 ELSE 0)]
        /\ lastOp' = [op |-> "update", n |-> i, o |-> ""]
        /\ UNCHANGED <<sysVars, tweens, entVars>>

\* Tweener.addTween(tw, t, startnow)
AddTween(i, tp, startnow) ==
    /\ Len(tweens) < MaxTweens
    /\ tweens' = Append(tweens, <<i, tp>>)
    /\ tw' = IF startnow THEN [tw EXCEPT ![i] = TweenStart(tw[i])] ELSE tw
    /\ fired' = NoFired
    /\ lastOp' = [op |-> "addTween", n |-> 0, o |-> ""]
    /\ UNCHANGED <<sysVars, calls, entVars>>

\* Tweener.removeTween(tw) called directly
Remove(i) ==
    /\ tweens' = RemoveTween(tweens, i)
    /\ fired' = NoFired
    /\ lastOp' = [op |-> "removeTween", n |-> 0, o |-> ""]
    /\ UNCHANGED <<sysVars, tw, calls, entVars>>

\* Tweener.update of the Tweener "a" in a frame with Game.elapsed = dt: the
\* tweens, then Entity.update
Frame(dt) ==
    \E st \in {TweenerLoop(tweens,
                            [tw |-> tw, tweens |-> tweens,
                             fired |-> NoFired, calls |-> calls],
                            dt)} :
    \E u \in {EntityUpdate(ent["a"], dt, scroll)} :
        /\ tw' = st.tw
        /\ tweens' = st.tweens
        /\ fired' = st.fired
        /\ calls' = st.calls
        /\ ent' = [ent EXCEPT !["a"] = u.e]
        /\ hooks' = u.hooks
        /\ result' = NoResult
        /\ lastOp' = [op |-> "frame", n |-> dt, o |-> "a"]
        /\ UNCHANGED <<sysVars, scroll, ticks>>

\* after construction: a Tweener "a" and an Image "b", both 4 x 2 px at (0, 0)
InitObjects ==
    /\ Unused
    /\ ent = [o \in Objects |->
                 IF o = "a" THEN NewObject("Entity", 0, 0, 4, 2)
                 ELSE NewObject("Image", 0, 0, 4, 2)]
    /\ scroll = <<0, 0>>
    /\ hooks = <<>>
    /\ result = NoResult
    /\ ticks = 0

\* the durations the tweens are constructed with: any for tween 1, the longest
\* for the others
DurationChoices == {d \in [TweenIds -> Durations] : \A i \in TweenIds \ {1} : d[i] = MaxDuration}

InitTween ==
    /\ \E d \in DurationChoices : tw = [i \in TweenIds |-> NewTween(0, 10, d[i])]
    /\ tweens = <<>>
    /\ fired = NoFired
    /\ calls = NoFired
    /\ lastOp = [op |-> "init", n |-> 0, o |-> ""]
    /\ InitObjects

\* calls made on the tweens themselves
NextTween ==
    \/ \E i \in TweenIds : Start(i)
    \/ \E i \in TweenIds : Stop(i)
    \/ \E i \in TweenIds : Reset(i)
    \/ \E i \in TweenIds, dt \in Elapsed : Update(i, dt)

SpecTween == InitTween /\ [][NextTween]_vars

\* tweens held by the Tweener "a", which updates them once per frame
NextTweener ==
    \/ \E i \in TweenIds : Start(i)
    \/ \E i \in TweenIds : Stop(i)
    \/ \E i \in TweenIds : Reset(i)
    \/ \E i \in TweenIds, tp \in Policies, sn \in BOOLEAN : AddTween(i, tp, sn)
    \/ \E i \in TweenIds : Remove(i)
    \/ \E dt \in Elapsed : Frame(dt)

SpecTweener == InitTween /\ [][NextTweener]_vars

\* the game loop runs Tweener.update once per frame; only frames with dt > 0
InitLoop ==
    /\ \E d \in DurationChoices :
       \E n \in 1..MaxTweens :
       \E s \in [1..n -> TweenIds \X Policies] :
          /\ tweens = s
          /\ tw = [i \in TweenIds |->
                     IF \E k \in 1..n : s[k][1] = i
                     THEN TweenStart(NewTween(0, 10, d[i]))
                     ELSE NewTween(0, 10, d[i])]
    /\ fired = NoFired
    /\ calls = NoFired
    /\ lastOp = [op |-> "init", n |-> 0, o |-> ""]
    /\ InitObjects

NextLoop == \E dt \in Elapsed \ {0} : Frame(dt)

SpecLoop == InitLoop /\ [][NextLoop]_vars /\ WF_vars(NextLoop)

\* ---------------------------------------------------------- entity actions

\* the frame times, in ms: the 1 ms at which motion is still skipped, and half
\* a second and a second (which keep the angle at multiples of 90 degrees)
FrameTimes == {1, 500, 1000}

\* one frame of the game loop for object o, with Game.elapsed = ms
UpdateObject(o, ms) ==
    /\ ticks < MaxTicks
    /\ \E u \in {ObjectUpdate(ent[o], ms, scroll)} :
        /\ ent' = [ent EXCEPT ![o] = u.e]
        /\ hooks' = u.hooks
        /\ ticks' = ticks + 1
        /\ result' = NoResult
        /\ lastOp' = [op |-> "updateObject", n |-> ms, o |-> o]
        /\ UNCHANGED <<sysVars, tweenVars, scroll>>

\* o.kill()
Kill(o) ==
    /\ ent' = [ent EXCEPT ![o] = KillObject(ent[o])]
    /\ hooks' = <<>>
    /\ result' = NoResult
    /\ lastOp' = [op |-> "kill", n |-> 0, o |-> o]
    /\ UNCHANGED <<sysVars, tweenVars, scroll, ticks>>

\* o.alive = True
Revive(o) ==
    /\ ~ent[o].alive
    /\ ent' = [ent EXCEPT ![o].alive = TRUE]
    /\ hooks' = <<>>
    /\ result' = NoResult
    /\ lastOp' = [op |-> "revive", n |-> 0, o |-> o]
    /\ UNCHANGED <<sysVars, tweenVars, scroll, ticks>>

\* s.overlap(o, checkAlive)
OverlapCall(s, o, checkAlive) ==
    /\ result' = [op |-> "overlap", self |-> s, other |-> o,
                  ret |-> Overlap(ent, s, o, checkAlive),
                  dispatched |-> FALSE, sides |-> {}]
    /\ hooks' = <<>>
    /\ lastOp' = [op |-> "overlap", n |-> IF checkAlive THEN 1 ELSE 0, o |-> s]
    /\ UNCHANGED <<sysVars, tweenVars, ent, scroll, ticks>>

\* s.collide(o, kill, checkAlive)
CollideCall(s, o, kill, checkAlive) ==
    \E addr \in BOOLEAN :
        LET c == CollideObjects(ent, s, o, kill, checkAlive, addr)
        IN  /\ ent' = c.E
            /\ hooks' = c.hooks
            /\ result' = c.result
            /\ lastOp' = [op |-> IF kill THEN "collideKill" ELSE "collide",
                          n |-> IF checkAlive THEN 1 ELSE 0, o |-> s]
            /\ UNCHANGED <<sysVars, tweenVars, scroll, ticks>>

InitNoTweens ==
    /\ tw = [i \in TweenIds |-> NewTween(0, 10, 1)]
    /\ tweens = <<>>
    /\ fired = NoFired
    /\ calls = NoFired

\* ------------------------------------------------------------------ motion

\* the motion properties an Entity is given before its first frame: velocity,
\* acceleration, drag and maxVelocity in px/s, the angular ones in deg/s
Velocities == {<<0, 0>>, <<100, 0>>, <<-100, 60>>, <<40, -30>>}
Accelerations == {<<0, 0>>, <<20, -20>>}
Drags == {<<0, 0>>, <<30, 30>>}
MaxVelocities == {<<>>, <<50, 50>>}
Rotations == {<<0, 0, FALSE>>, <<180, 0, FALSE>>, <<-360, 360, TRUE>>}

MovingEntity(v, a, d, m, r, animated) ==
    [NewObject("Entity", 0, 0, 4, 2) EXCEPT
        !.vx = v[1] * Milli, !.vy = v[2] * Milli,
        !.ax = a[1], !.ay = a[2],
        !.dragx = d[1], !.dragy = d[2],
        !.maxVelocity = m,
        !.angular = r[1] * Milli, !.angularAcceleration = r[2], !.rotating = r[3],
        !.animated = animated, !.nframes = IF animated THEN 3 ELSE 0]

Init ==
    /\ InitNoTweens
    /\ Unused
    /\ \E v \in Velocities, a \in Accelerations, d \in Drags, m \in MaxVelocities,
          r \in Rotations, animated \in BOOLEAN, alive \in BOOLEAN, fixed \in BOOLEAN :
          ent = [o \in Objects |->
                   IF o = "a"
                   THEN [MovingEntity(v, a, d, m, r, animated) EXCEPT
                            !.alive = alive, !.fixed = fixed]
                   ELSE NewObject("Image", 1, 1, 4, 2)]
    /\ scroll = <<0, 0>>
    /\ hooks = <<>>
    /\ result = NoResult
    /\ ticks = 0
    /\ lastOp = [op |-> "init", n |-> 0, o |-> ""]

Next ==
    \/ \E ms \in FrameTimes : UpdateObject("a", ms)
    \/ Kill("a")
    \/ Revive("a")
    \/ \E checkAlive \in BOOLEAN : CollideCall("a", "b", FALSE, checkAlive)

Spec == Init /\ [][Next]_vars

\* --------------------------------------------------------------- collision

\* where b is put, in px, around a 4 x 4 object a at (0, 0): on it, overlapping
\* it on each side and at a corner, touching it, and away from it
Places == {<<0, 0>>, <<-3, 0>>, <<3, 0>>, <<0, -3>>, <<0, 3>>, <<2, 2>>, <<4, 0>>, <<9, 0>>}

\* the velocities of a and b, in px/s
CollideVelocities == {<<0, 0>>, <<100, -100>>, <<-100, 100>>}

InitCollide ==
    /\ InitNoTweens
    /\ Unused
    /\ \E va \in CollideVelocities, vb \in CollideVelocities, kb \in {"Image", "Entity"}, p \in Places,
          alive \in [Objects -> BOOLEAN], collidable \in BOOLEAN :
          /\ kb = "Image" => vb = <<0, 0>>
          /\ ent = [o \in Objects |->
                      IF o = "a"
                      THEN [NewObject("Entity", 0, 0, 4, 4) EXCEPT
                               !.vx = va[1] * Milli, !.vy = va[2] * Milli,
                               !.alive = alive[o], !.visible = alive[o],
                               !.collidable = collidable]
                      ELSE [NewObject(kb, p[1], p[2], 4, 4) EXCEPT
                               !.vx = vb[1] * Milli, !.vy = vb[2] * Milli,
                               !.alive = alive[o], !.visible = alive[o]]]
    /\ scroll = <<0, 0>>
    /\ hooks = <<>>
    /\ result = NoResult
    /\ ticks = 0
    /\ lastOp = [op |-> "init", n |-> 0, o |-> ""]

NextCollide ==
    \/ \E s \in Objects, o \in Objects \cup {None}, checkAlive \in BOOLEAN :
          OverlapCall(s, o, checkAlive)
    \/ \E s \in Objects, o \in Objects \cup {None}, kill \in BOOLEAN, checkAlive \in BOOLEAN :
          CollideCall(s, o, kill, checkAlive)

SpecCollide == InitCollide /\ [][NextCollide]_vars

\* ------------------------------------------------------------------ claims

Range(s) == {s[k] : k \in 1..Len(s)}
Count(s, id) == Cardinality({k \in 1..Len(s) : s[k][1] = id})
Done(t) == t.percent = t.duration /\ ~t.running
AtEnd(t) == t.value = t.endval * t.duration
AtStart(t) == t.value = t.startval * t.duration

\* C2: onComplete is invoked exactly once each time percent reaches 1, in the
\* update that sets value = end, percent = 1 and running = false, and not again
\* until reset(): in every state the number of onComplete calls since the last
\* reset is 1 exactly when percent is 1 (and then value = end and the tween is
\* stopped), and 0 otherwise.
C2_OnCompleteOnce ==
    \A i \in TweenIds :
        /\ calls[i] \in {0, 1}
        /\ (calls[i] = 1) <=> (tw[i].percent = tw[i].duration)
        /\ calls[i] = 1 => (AtEnd(tw[i]) /\ ~tw[i].running)
        /\ fired[i] >= 1 => lastOp.op \in {"update", "frame"}

\* an update called on a completed tween, which did not invoke onComplete again
C2_Witness ==
    \E i \in TweenIds :
        calls[i] = 1 /\ lastOp.op = "update" /\ lastOp.n = i /\ fired[i] = 0

\* C3: update on a tween that is not running changes nothing and returns the
\* current value; a completed tween stays at value = end, not running, under
\* update and start.
C3_UpdateStoppedNoOp ==
    \A i \in TweenIds :
        /\ ~tw[i].running =>
              \A dt \in Elapsed :
                 /\ TweenUpdate(tw[i], dt).t = tw[i]
                 /\ ~TweenUpdate(tw[i], dt).complete
                 /\ TweenUpdateResult(tw[i], dt) = tw[i].value
        /\ tw[i].percent = tw[i].duration =>
              /\ AtEnd(tw[i]) /\ ~tw[i].running
              /\ TweenStart(tw[i]) = tw[i]

\* start called on a completed tween that has not been reset
C3_Witness ==
    \E i \in TweenIds :
        tw[i].percent = tw[i].duration /\ lastOp.op = "start" /\ lastOp.n = i

\* C4 as stated: a running ONESHOT tween that reaches percent = 1 during a
\* Tweener.update is no longer in the list when that call returns.
C4_RemovedSameFrame ==
    [][\A i \in TweenIds :
          (/\ lastOp'.op = "frame"
           /\ <<i, ONESHOT>> \in Range(tweens)
           /\ tw[i].running
           /\ tw[i].percent < tw[i].duration
           /\ tw'[i].percent = tw'[i].duration)
          => <<i, ONESHOT>> \notin Range(tweens')]_vars

\* C4 amended: the policy is applied by the first Tweener.update that finds the
\* tween already complete, not by the one that completes it. A ONESHOT tween
\* held once that completes during a Tweener.update is still in the list when
\* that call returns; a Tweener.update that starts with a completed ONESHOT
\* tween (held once) in the list returns without it, the tween untouched.
C4_RemovedNextFrame ==
    [][\A i \in TweenIds :
          lastOp'.op = "frame" =>
             /\ (/\ <<i, ONESHOT>> \in Range(tweens)
                 /\ Count(tweens, i) = 1
                 /\ fired'[i] = 1)
                => (<<i, ONESHOT>> \in Range(tweens') /\ Done(tw'[i]))
             /\ (/\ <<i, ONESHOT>> \in Range(tweens)
                 /\ Count(tweens, i) = 1
                 /\ Done(tw[i]))
                => (Count(tweens', i) = 0 /\ tw'[i] = tw[i])]_vars

\* a Tweener.update has just completed a ONESHOT tween, which is still held
C4_Witness ==
    \E i \in TweenIds :
        /\ lastOp.op = "frame"
        /\ fired[i] = 1
        /\ Count(tweens, i) = 1
        /\ <<i, ONESHOT>> \in Range(tweens)
        /\ Done(tw[i])

HeldOnceLoop(i) == Count(tweens, i) = 1 /\ <<i, LOOP>> \in Range(tweens)

\* C5: a LOOP tween (held once) found complete by Tweener.update is reset and
\* restarted (percent 0, value = start, running) and stays in the list; under
\* repeated frames with dt > 0 it completes infinitely often.
C5_LoopRestarts ==
    /\ [][\A i \in TweenIds :
             (lastOp'.op = "frame" /\ HeldOnceLoop(i) /\ Done(tw[i]))
             => /\ tw'[i].percent = 0
                /\ AtStart(tw'[i])
                /\ tw'[i].running
                /\ fired'[i] = 0
                /\ tweens' = tweens \/ <<i, LOOP>> \in Range(tweens')]_vars
    /\ \A i \in TweenIds : HeldOnceLoop(i) => []<>(fired[i] >= 1)

\* a frame has just restarted a LOOP tween
C5_Witness ==
    \E i \in TweenIds :
        /\ HeldOnceLoop(i)
        /\ lastOp.op = "frame"
        /\ tw[i].percent = 0 /\ tw[i].running /\ fired[i] = 0

\* C1 as stated: overlap and collide of an object with itself or with None
\* return false (overlap) or nothing (collide) without an error, run no hook
\* and change nothing, whatever the alive-check flag.
C1_SelfOrNoneIsFalse ==
    [][(result'.op \in {"overlap", "collide"}
        /\ result'.other \in {result'.self, None})
       => /\ result'.ret \in {"False", None}
          /\ ~result'.dispatched
          /\ hooks' = <<>>
          /\ ent' = ent]_vars

\* what C6 says a dead entity keeps
MotionState(e) == <<e.x, e.y, e.vx, e.vy, e.angular, e.angle, e.currentFrame>>

\* C6: while an entity is not alive, updates (and collide calls) leave its
\* position, velocity, angular velocity, angle and current frame unchanged and
\* run none of its movement or collision hooks, until alive is set again.
C6_DeadIsInert ==
    [][(~ent["a"].alive /\ lastOp'.op # "revive")
       => (MotionState(ent'["a"]) = MotionState(ent["a"]) /\ hooks' = <<>>)]_vars

\* a frame of at least 2 ms has updated a dead, rotating, animated entity that
\* has a velocity and is not fixed
C6_Witness ==
    /\ lastOp.op = "updateObject" /\ lastOp.n > 1
    /\ ~ent["a"].alive /\ ~ent["a"].fixed /\ ent["a"].animated
    /\ ent["a"].vx # 0 /\ ent["a"].angular # 0

\* C7: an update leaves the position and the velocity of a fixed entity as
\* they were, whatever its velocity, acceleration, drag and the frame time.
C7_FixedStays ==
    [][(ent["a"].fixed /\ lastOp'.op = "updateObject")
       => /\ ent'["a"].x = ent["a"].x /\ ent'["a"].y = ent["a"].y
          /\ ent'["a"].vx = ent["a"].vx /\ ent'["a"].vy = ent["a"].vy]_vars

\* a frame of at least 2 ms has updated a live fixed entity that has a
\* velocity and an acceleration
C7_Witness ==
    /\ lastOp.op = "updateObject" /\ lastOp.n > 1
    /\ ent["a"].fixed /\ ent["a"].alive
    /\ ent["a"].vx # 0 /\ ent["a"].ax # 0

\* the case of C8: alive, not fixed, no acceleration, no drag
Coasting(e) ==
    e.alive /\ ~e.fixed /\ e.ax = 0 /\ e.ay = 0 /\ e.dragx = 0 /\ e.dragy = 0

\* the position has moved by velocity * dt and the velocity is as it was
MovedByVelocity(e, f, ms) ==
    /\ f.x = e.x + e.vx * ms /\ f.y = e.y + e.vy * ms
    /\ f.vx = e.vx /\ f.vy = e.vy

\* C8 as stated: an update with dt > 1 ms of a coasting entity moves it by
\* exactly velocity * dt on each axis and leaves the velocity unchanged.
C8_MovesByVelocity ==
    [][(lastOp'.op = "updateObject" /\ lastOp'.n > 1 /\ Coasting(ent["a"]))
       => MovedByVelocity(ent["a"], ent'["a"], lastOp'.n)]_vars

\* maxVelocity is None, or at least |velocity| on both axes
WithinMaxVelocity(e) ==
    \/ e.maxVelocity = <<>>
    \/ /\ e.maxVelocity[1] * Milli >= Abs(e.vx)
       /\ e.maxVelocity[2] * Milli >= Abs(e.vy)

\* C8 amended: ... of a coasting entity whose maxVelocity is None or at least
\* |velocity| on both axes ...
C8_MovesByVelocityWithinMax ==
    [][(/\ lastOp'.op = "updateObject" /\ lastOp'.n > 1
        /\ Coasting(ent["a"]) /\ WithinMaxVelocity(ent["a"]))
       => MovedByVelocity(ent["a"], ent'["a"], lastOp'.n)]_vars

\* velocity (100, 0), dt = 0.5 s: the entity is at x = 50, y = 0
C8_Witness ==
    /\ lastOp.op = "updateObject" /\ lastOp.n = 500 /\ ticks = 1
    /\ Coasting(ent["a"]) /\ ent["a"].maxVelocity = <<>>
    /\ ent["a"].vx = 100 * Milli /\ ent["a"].vy = 0
    /\ ent["a"].x = 50 * Micro /\ ent["a"].y = 0

\* the velocity C9 gives an object: its velocity, or (0, 0) if it has none
ClaimedVx(e) == IF e.kind = "Entity" THEN e.vx ELSE 0
ClaimedVy(e) == IF e.kind = "Entity" THEN e.vy ELSE 0

\* the sides C9 says are passed to a's response
ClaimedSides(e, o) ==
    {hk \in {"hitLeft", "hitRight", "hitTop", "hitBottom"} :
        \/ hk = "hitRight"
           /\ (ClaimedVx(e) > ClaimedVx(o)
               \/ (e.x < o.x /\ RectRight(e.rect) > o.rect.left))
        \/ hk = "hitLeft"
           /\ (ClaimedVx(e) < ClaimedVx(o)
               \/ (e.x > o.x /\ e.rect.left < RectRight(o.rect)))
        \/ hk = "hitBottom"
           /\ (ClaimedVy(e) > ClaimedVy(o)
               \/ (e.y < o.y /\ RectBottom(e.rect) > o.rect.top))
        \/ hk = "hitTop"
           /\ (ClaimedVy(e) < ClaimedVy(o)
               \/ (e.y > o.y /\ e.rect.top < RectBottom(o.rect)))}

\* C9 as stated: when collide(a, b) finds an overlap, the sides passed to a's
\* response are those given by comparing the velocities of a and b and their
\* positions and edges.
C9_SidesByVelocity ==
    (result.op = "collide" /\ result.dispatched)
    => result.sides = ClaimedSides(ent[result.self], ent[result.other])

\* C10: collide with kill on two overlapping objects leaves both dead and
\* invisible; a collide that finds no overlap changes no object and runs no
\* hook.
C10_KillOnCollision ==
    [][\A s \in Objects, o \in Objects :
          (result'.op = "collide" /\ result'.self = s /\ result'.other = o)
          => IF Truthy(Overlap(ent, s, o, lastOp'.n = 1))
             THEN lastOp'.op = "collideKill"
                  => /\ ~ent'[s].alive /\ ~ent'[s].visible
                     /\ ~ent'[o].alive /\ ~ent'[o].visible
             ELSE ent' = ent /\ hooks' = <<>>]_vars

\* a collide with kill has found an overlap
C10_Witness ==
    /\ lastOp.op = "collideKill" /\ result.dispatched
    /\ ~ent["a"].alive /\ ~ent["b"].alive

\* the place of a response hook in the order left, right, top, bottom, general
HookOrder(hk) ==
    CASE hk = "hitLeft" -> 1
      [] hk = "hitRight" -> 2
      [] hk = "hitTop" -> 3
      [] hk = "hitBottom" -> 4
      [] OTHER -> 5

\* C11: when collide finds an overlap and the object is not collidable or not
\* alive at the dispatch (after any kill), no hook runs and the result is
\* false; otherwise exactly the hooks of the flagged sides run, in the order
\* left, right, top, bottom, then the general response, and the result is true.
C11_ResponseGuarded ==
    [][\A s \in Objects :
          (result'.op = "collide" /\ result'.dispatched /\ result'.self = s)
          => IF ~ent'[s].collidable \/ ~ent'[s].alive
             THEN hooks' = <<>> /\ result'.ret = "False"
             ELSE /\ result'.ret = "True"
                  /\ Range(hooks') = result'.sides \cup {"super.onCollision"}
                  /\ \A j, k \in 1..Len(hooks') :
                        j < k => HookOrder(hooks'[j]) < HookOrder(hooks'[k])]_vars

\* a collide has run the hooks of two flagged sides, and returned true
C11_Witness ==
    /\ result.op = "collide" /\ result.dispatched /\ result.ret = "True"
    /\ Len(hooks) >= 3
    /\ lastOp.op = "collide"

\* ----------------------------------------------------------------- overlap

\* the hitbox attribute an object is given: a 2 x 2 box around its position
HitboxAt(x, y) == [left |-> x - 1, top |-> y - 1, w |-> 2, h |-> 2]

\* the masks an object is given, as the opaque pixels of its 4 x 4 image:
\* every pixel, or the leftmost column only
Masks == {(0..3) \X (0..3), {0} \X (0..3)}

\* a and b, 4 x 4, with or without a hitbox and a mask
InitOverlap ==
    /\ InitNoTweens
    /\ Unused
    /\ \E p \in Places, hb \in [Objects -> BOOLEAN], hm \in [Objects -> BOOLEAN],
          mk \in [Objects -> Masks], alive \in [Objects -> BOOLEAN] :
          /\ \A o \in Objects : ~hm[o] => mk[o] = (0..3) \X (0..3)
          /\ ent = [o \in Objects |->
                      LET x == IF o = "a" THEN 0 ELSE p[1]
                          y == IF o = "a" THEN 0 ELSE p[2]
                      IN  [NewObject("Entity", x, y, 4, 4) EXCEPT
                              !.alive = alive[o], !.visible = alive[o],
                              !.hasHitbox = hb[o],
                              !.hitbox = IF hb[o] THEN HitboxAt(x, y) ELSE @,
                              !.hasMask = hm[o],
                              !.mask = IF hm[o] THEN mk[o] ELSE {}]]
    /\ scroll = <<0, 0>>
    /\ hooks = <<>>
    /\ result = NoResult
    /\ ticks = 0
    /\ lastOp = [op |-> "init", n |-> 0, o |-> ""]

NextOverlap ==
    \E s \in Objects, o \in Objects, checkAlive \in BOOLEAN : OverlapCall(s, o, checkAlive)

SpecOverlap == InitOverlap /\ [][NextOverlap]_vars

\* the box C12 gives an object
ClaimedBox(e) == IF e.hasHitbox THEN e.hitbox ELSE e.rect

\* two boxes share a point of positive area
BoxesIntersect(r, q) ==
    \E x \in r.left..(r.left + r.w - 1), y \in r.top..(r.top + r.h - 1) :
        /\ q.left <= x /\ x < q.left + q.w
        /\ q.top <= y /\ y < q.top + q.h

\* the opaque pixels of an object, on the screen
ScreenPixels(e) == {<<e.rect.left + p[1], e.rect.top + p[2]>> : p \in e.mask}

\* C12: overlap of two distinct objects is false when the alive check is
\* requested and either is dead; else false when their boxes (hitbox if any,
\* else rect) do not intersect; else, when both have a mask, the result of the
\* pixel-mask intersection (a point exactly when an opaque pixel of one lies on
\* an opaque pixel of the other, else None); else true.
C12_OverlapResult ==
    \A s \in Objects, o \in Objects :
        (s # o /\ result.op = "overlap" /\ result.self = s /\ result.other = o)
        => result.ret =
              (IF lastOp.n = 1 /\ (~ent[s].alive \/ ~ent[o].alive) THEN "False"
               ELSE IF ~BoxesIntersect(ClaimedBox(ent[s]), ClaimedBox(ent[o])) THEN "False"
               ELSE IF ent[s].hasMask /\ ent[o].hasMask
               THEN IF ScreenPixels(ent[s]) \cap ScreenPixels(ent[o]) # {}
                    THEN "Point" ELSE None
               ELSE "True")

\* two objects whose boxes intersect and whose masks do not
C12_Witness ==
    /\ result.op = "overlap" /\ result.self = "a" /\ result.other = "b"
    /\ ent["a"].hasMask /\ ent["b"].hasMask
    /\ BoxesIntersect(ClaimedBox(ent["a"]), ClaimedBox(ent["b"]))
    /\ result.ret = None

\* ---------------------------------------------------------------- QuadTree

MaxItems == 3
MaxDepth == 3

\* pygame Rect(left, top, width, height)
Rect(l, t, w, h) == [left |-> l, top |-> t, w |-> w, h |-> h]

\* pygame Rect.centerx, Rect.centery
CenterX(r) == r.left + r.w \div 2
CenterY(r) == r.top + r.h \div 2

Min(a, b) == IF a < b THEN a ELSE b
Max(a, b) == IF a > b THEN a ELSE b

\* pygame Rect.union
Union(r, q) ==
    LET l == Min(r.left, q.left)
        t == Min(r.top, q.top)
    IN  Rect(l, t, Max(RectRight(r), RectRight(q)) - l, Max(RectBottom(r), RectBottom(q)) - t)

\* bounds = items[0].rect; bounds.unionall([i.rect for i in items[1:]])
RECURSIVE UnionAll(_, _, _)
UnionAll(b, items, rc) ==
    IF items = <<>> THEN b ELSE UnionAll(Union(b, rc[Head(items)]), Tail(items), rc)

\* the sub-quadrants an item's rect overlaps
QuadrantsFirstOnly(r, cx, cy) ==
    IF r.left <= cx /\ r.top <= cy THEN {"nw"}
    ELSE IF RectRight(r) >= cx /\ r.top <= cy THEN {"ne"}
    ELSE IF RectRight(r) >= cx /\ RectBottom(r) >= cy THEN {"se"}
    ELSE IF r.left <= cx /\ RectBottom(r) >= cy THEN {"sw"}
    ELSE {}

Quadrants(r, cx, cy) ==
    {q \in {"nw", "ne", "se", "sw"} :
        \/ q = "nw" /\ r.left <= cx /\ r.top <= cy
        \/ q = "sw" /\ r.left <= cx /\ RectBottom(r) >= cy
        \/ q = "ne" /\ RectRight(r) >= cx /\ r.top <= cy
        \/ q = "se" /\ RectRight(r) >= cx /\ RectBottom(r) >= cy}

AllQuadrants == {"nw", "ne", "se", "sw"}

\* the bounds tuple handed to a sub-quadrant, read by Game.Rect(bounds) as
\* (left, top, width, height)
ChildBounds(q, b, cx, cy) ==
    CASE q = "nw" -> Rect(b.left, b.top, cx, cy)
      [] q = "ne" -> Rect(cx, b.top, RectRight(b), cy)
      [] q = "se" -> Rect(cx, cy, RectRight(b), RectBottom(b))
      [] q = "sw" -> Rect(b.left, cy, cx, RectBottom(b))

\* a QuadTree that holds its items and has no sub-quadrant
LeafTree(items) ==
    [items |-> items, cx |-> 0, cy |-> 0,
     nw |-> <<>>, ne |-> <<>>, se |-> <<>>, sw |-> <<>>]

\* QuadTree.__init__(items, depth, bounds): items is a list of item ids, rc the
\* rect of each item, bounds a one-element list or the empty list (None). A
\* sub-quadrant is a one-element list holding the tree, or the empty list.
RECURSIVE NewQuadTree(_, _, _, _)
NewQuadTree(items, depth, bounds, rc) ==
    IF depth - 1 = 0 \/ items = <<>>
    THEN LeafTree(items)
    ELSE LET b == IF bounds # <<>> THEN bounds[1]
                  ELSE UnionAll(rc[Head(items)], Tail(items), rc)
             cx == CenterX(b)
             cy == CenterY(b)
             Sub(q) ==
                 LET its == SelectSeq(items, LAMBDA i :
                                /\ Quadrants(rc[i], cx, cy) # AllQuadrants
                                /\ q \in Quadrants(rc[i], cx, cy))
                 IN  IF its # <<>>
                     THEN <<NewQuadTree(its, depth - 1, <<ChildBounds(q, b, cx, cy)>>, rc)>>
                     ELSE <<>>
         IN  [items |-> SelectSeq(items, LAMBDA i : Quadrants(rc[i], cx, cy) = AllQuadrants),
              cx |-> cx, cy |-> cy,
              nw |-> Sub("nw"), ne |-> Sub("ne"), se |-> Sub("se"), sw |-> Sub("sw")]

\* QuadTree.hit(rect)
RECURSIVE QuadTreeHit(_, _, _)
QuadTreeHit(t, rect, rc) ==
    {t.items[n] : n \in {k \in 1..Len(t.items) : CollideRect(rect, rc[t.items[k]])}}
    \cup (IF t.nw # <<>> /\ rect.left <= t.cx /\ rect.top <= t.cy
          THEN QuadTreeHit(t.nw[1], rect, rc) ELSE {})
    \cup (IF t.sw # <<>> /\ rect.left <= t.cx /\ RectBottom(rect) >= t.cy
          THEN QuadTreeHit(t.sw[1], rect, rc) ELSE {})
    \cup (IF t.ne # <<>> /\ RectRight(rect) >= t.cx /\ rect.top <= t.cy
          THEN QuadTreeHit(t.ne[1], rect, rc) ELSE {})
    \cup (IF t.se # <<>> /\ RectRight(rect) >= t.cx /\ RectBottom(rect) >= t.cy
          THEN QuadTreeHit(t.se[1], rect, rc) ELSE {})

\* the rects of the items: in a corner, across a centre line, on the centre
\* lines, inside another
ItemRects ==
    {Rect(0, 0, 2, 2), Rect(6, 6, 2, 2), Rect(2, 0, 3, 2),
     Rect(4, 4, 2, 2), Rect(0, 5, 3, 2), Rect(1, 1, 1, 1)}

\* the rects queried
QueryRects ==
    {Rect(0, 0, 1, 1), Rect(3, 3, 2, 2), Rect(4, 0, 1, 1), Rect(7, 7, 1, 1),
     Rect(0, 0, 8, 8), Rect(2, 2, 1, 1), Rect(5, 0, 3, 3), Rect(0, 4, 4, 4),
     Rect(10, 10, 1, 1)}

Depths == 1..MaxDepth

\* QuadTree(items, depth) of up to MaxItems items
InitQuadTree ==
    /\ InitNoTweens
    /\ NoWorld /\ NoLoop /\ NoVector
    /\ ent = <<>> /\ scroll = <<0, 0>> /\ hooks = <<>> /\ result = NoResult /\ ticks = 0
    /\ lastOp = [op |-> "init", n |-> 0, o |-> ""]
    /\ \E n \in 0..MaxItems, d \in Depths :
       \E rc \in [1..n -> ItemRects] :
          qt = [rc |-> rc, depth |-> d,
                tree |-> NewQuadTree([i \in 1..n |-> i], d, <<>>, rc),
                query |-> <<>>, hits |-> {}]

\* tree.hit(rect)
Hit(rect) ==
    /\ qt' = [qt EXCEPT !.query = <<rect>>, !.hits = QuadTreeHit(qt.tree, rect, qt.rc)]
    /\ lastOp' = [op |-> "hit", n |-> 0, o |-> ""]
    /\ UNCHANGED <<tweenVars, entVars, world, loop, pt>>

NextQuadTree == \E rect \in QueryRects : Hit(rect)

SpecQuadTree == InitQuadTree /\ [][NextQuadTree]_vars

\* the items a scan of all of them finds intersecting the rect
BruteForceHit(rc, rect) ==
    {i \in DOMAIN rc :
        /\ rc[i].left < rect.left + rect.w /\ rect.left < rc[i].left + rc[i].w
        /\ rc[i].top < rect.top + rect.h /\ rect.top < rc[i].top + rc[i].h}

\* C13: QuadTree(items, maxDepth).hit(rect) is the set a brute-force scan of
\* the items gives, for every item list, depth >= 1 and query rect; an empty
\* item list gives an empty result.
C13_HitIsBruteForce ==
    qt.query # <<>> => qt.hits = BruteForceHit(qt.rc, qt.query[1])

\* a tree two levels deep has answered a query that hits an item held in a
\* sub-quadrant and misses another item
C13_Witness ==
    /\ qt.query # <<>>
    /\ qt.tree.items = <<>>
    /\ \E q \in {qt.tree.nw, qt.tree.ne, qt.tree.se, qt.tree.sw} :
          q # <<>> /\ q[1].nw # <<>>
    /\ qt.hits # {} /\ qt.hits # DOMAIN qt.rc

\* ------------------------------------------------------------------- World

\* d * m / k for a float d kept as an integer number of quanta: the product
\* is taken in two parts to stay within 32 bits, and cut toward zero
MulDiv(d, m, k) ==
    Sign(d) * ((Abs(d) \div k) * m + ((Abs(d) % k) * m) \div k)

\* the screen of the World, in px
ScreenWidth == 64
ScreenHeight == 48

\* World.__init__(width, height): no focus, no lead, followSpeed 1.0 (kept in
\* thousandths), no follow bounds, Game.elapsed 0
NewWorld(width, height) ==
    [width |-> width, height |-> height,
     focus |-> None, focusLead |-> <<>>, focusLeadAttr |-> <<>>,
     followSpeed |-> Milli, followMin |-> <<>>, followMax |-> <<>>,
     elapsed |-> 0, error |-> ""]

\* World.getScreenCenter, in 1/1000000 px
ScreenCenter(w) == <<(w.width \div 2) * Micro, (w.height \div 2) * Micro>>

\* World._doCameraFollow: focus.position - screen centre
CameraTarget(w, E) ==
    <<E[w.focus].x - ScreenCenter(w)[1], E[w.focus].y - ScreenCenter(w)[2]>>

\* World._doCameraFollow: the clamp of one coordinate to the follow bounds
ClampAxisMinOnly(v, w, k) ==
    IF w.followMin # <<>> /\ v < w.followMin[k] THEN w.followMin[k] ELSE v

ClampAxis(v, w, k) ==
    LET lo == IF w.followMin # <<>> /\ v < w.followMin[k] THEN w.followMin[k] ELSE v
    IN  IF w.followMax # <<>> /\ lo > w.followMax[k] THEN w.followMax[k] ELSE lo

\* World._doCameraFollow: the new Game.scroll, and the error raised if any
CameraFollowNoClamp(w, E, sc) ==
    IF w.focus = None
    THEN [scroll |-> sc, error |-> ""]
    ELSE IF w.focusLead # <<>> /\ (w.focusLead[1] # 0 \/ w.focusLead[2] # 0)
    THEN [scroll |-> sc, error |-> "AttributeError"]
    ELSE LET t == CameraTarget(w, E)
             Moved(k) ==
                 sc[k] + MulDiv(MulDiv(t[k] - sc[k], w.followSpeed, Milli),
                                w.elapsed, Milli)
         IN  [scroll |-> <<Moved(1), Moved(2)>>, error |-> ""]

CameraFollow(w, E, sc) ==
    IF w.focus = None
    THEN [scroll |-> sc, error |-> ""]
    ELSE IF w.focusLead # <<>> /\ (w.focusLead[1] # 0 \/ w.focusLead[2] # 0)
    THEN [scroll |-> sc, error |-> "AttributeError"]
    ELSE LET t == CameraTarget(w, E)
             Moved(k) ==
                 sc[k] + MulDiv(MulDiv(t[k] - sc[k], w.followSpeed, Milli),
                                w.elapsed, Milli)
         IN  [scroll |-> <<ClampAxis(Moved(1), w, 1), ClampAxis(Moved(2), w, 2)>>,
              error |-> ""]

\* World.follow(o, lead): lead is None (the empty list) or a pair
WorldFollow(w, E, sc, o, lead) ==
    Bind([w EXCEPT !.focus = o,
                   !.focusLeadAttr = IF lead # <<>> THEN lead ELSE @], LAMBDA w1 :
    Bind(CameraFollow(w1, E, sc), LAMBDA c :
        [world |-> [w1 EXCEPT !.error = c.error], scroll |-> c.scroll]))

\* World.followBounds(followMin, followMax), each None (the empty list) or a
\* pair in px
WorldFollowBounds(w, E, sc, mn, mx) ==
    Bind(IF mn = <<>> THEN <<0, 0>> ELSE mn, LAMBDA fmin :
    Bind(IF mx = <<>> THEN <<w.width, w.height>> ELSE mx, LAMBDA fmax :
    Bind([w EXCEPT !.followMin = <<fmin[1] * Micro, fmin[2] * Micro>>,
                   !.followMax = <<(fmax[1] - w.width) * Micro,
                                   (fmax[2] - w.height) * Micro>>], LAMBDA w1 :
    Bind(CameraFollow(w1, E, sc), LAMBDA c :
        [world |-> [w1 EXCEPT !.error = c.error], scroll |-> c.scroll]))))

\* World.update: the camera, then the update of the entities of the display
\* list (the focus "a")
WorldUpdate(w, E, sc) ==
    Bind(CameraFollow(w, E, sc), LAMBDA c :
    Bind(IF c.error = "" THEN EntityUpdate(E["a"], w.elapsed, c.scroll)
         ELSE [e |-> E["a"], hooks |-> <<>>], LAMBDA u :
        [world |-> [w EXCEPT !.error = c.error], scroll |-> c.scroll,
         ent |-> [E EXCEPT !["a"] = u.e], hooks |-> u.hooks]))

\* one iteration of GameLoop.loop: the updater World.update runs with the
\* Game.elapsed of the last tick, then the clock ticks ms
WorldStep(ms) ==
    \E u \in {WorldUpdate(world, ent, scroll)} :
        /\ world' = [u.world EXCEPT !.elapsed = ms]
        /\ scroll' = u.scroll
        /\ ent' = u.ent
        /\ hooks' = u.hooks
        /\ result' = NoResult
        /\ lastOp' = [op |-> "worldFrame", n |-> world.elapsed, o |-> "a"]
        /\ UNCHANGED <<tweenVars, qt, loop, pt>>

WorldFrame(ms) == WorldStep(ms) /\ UNCHANGED ticks

\* the frame times of the camera, in ms: dt in (0, 1) s
CameraTimes == {250, 500}

\* where the focus is, and the follow bounds given, in px
FocusPlaces == {<<32, 24>>, <<132, 24>>, <<0, 100>>}
FollowBoundsChoices == {<<>>, << <<>>, <<>> >>, << <<0, 0>>, <<144, 148>> >>}

\* World(64, 48); add(a); follow(a); followBounds(...) or not
InitCamera ==
    /\ InitNoTweens
    /\ NoQuadTree /\ NoLoop /\ NoVector
    /\ hooks = <<>> /\ result = NoResult /\ ticks = 0
    /\ lastOp = [op |-> "init", n |-> 0, o |-> ""]
    /\ \E p \in FocusPlaces, fb \in FollowBoundsChoices :
       \E E \in {[o \in Objects |-> IF o = "a" THEN NewObject("Entity", p[1], p[2], 4, 4)
                                    ELSE NewObject("Image", 0, 0, 4, 4)]} :
       \E f \in {WorldFollow(NewWorld(ScreenWidth, ScreenHeight), E, <<0, 0>>, "a", <<>>)} :
       \E b \in {IF fb = <<>> THEN f
                 ELSE WorldFollowBounds(f.world, E, f.scroll, fb[1], fb[2])} :
          /\ ent = E
          /\ world = b.world
          /\ scroll = b.scroll

NextCamera == \E ms \in CameraTimes : WorldFrame(ms)

SpecCamera == InitCamera /\ [][NextCamera]_vars /\ WF_vars(NextCamera)

\* the distance at which the camera counts as arrived, in 1/1000000 px
CameraEps == 10

\* the target clamped to the follow bounds
ClampedTarget(w, E) ==
    <<ClampAxis(CameraTarget(w, E)[1], w, 1), ClampAxis(CameraTarget(w, E)[2], w, 2)>>

\* C14: with a stationary focus, followSpeed 1.0 and dt in (0, 1) s a
\* World.update moves the scroll by (target - scroll) * dt on each axis and
\* then clamps it, never jumping to a target further than the step; the
\* distance to the clamped target never grows on either axis, and the scroll
\* eventually stays within CameraEps of it.
C14_CameraConverges ==
    /\ [][(/\ lastOp'.op = "worldFrame"
           /\ world.focus = "a" /\ world.followSpeed = Milli
           /\ world.elapsed > 0 /\ world.elapsed < Milli)
          => \A k \in 1..2 :
                LET t == CameraTarget(world, ent)[k]
                    ct == ClampedTarget(world, ent)[k]
                    step == MulDiv(t - scroll[k], world.elapsed, Milli)
                IN  /\ scroll'[k] = ClampAxis(scroll[k] + step, world, k)
                    /\ Abs(scroll'[k] - ct) <= Abs(scroll[k] - ct)
                    /\ Abs(t - scroll[k]) > CameraEps => scroll[k] + step # t]_vars
    /\ <>[](\A k \in 1..2 :
               Abs(scroll[k] - ClampedTarget(world, ent)[k]) <= CameraEps)

\* a frame has moved the camera part of the way to a target it has not reached
C14_Witness ==
    /\ lastOp.op = "worldFrame" /\ lastOp.n = 500
    /\ world.followMin = <<>>
    /\ scroll[1] > 0 /\ scroll[1] < CameraTarget(world, ent)[1] - Micro

\* calls and frames of one run of the world
MaxSteps == 4

\* world.follow(o, lead)
FollowCall(o, lead) ==
    /\ ticks < MaxSteps
    /\ ticks' = ticks + 1
    /\ \E f \in {WorldFollow(world, ent, scroll, o, lead)} :
        /\ world' = f.world
        /\ scroll' = f.scroll
        /\ lastOp' = [op |-> "follow", n |-> Len(lead), o |-> o]
        /\ UNCHANGED <<tweenVars, ent, hooks, result, qt, loop, pt>>

\* world.followBounds(followMin, followMax)
FollowBoundsCall(mn, mx) ==
    /\ ticks < MaxSteps
    /\ ticks' = ticks + 1
    /\ \E f \in {WorldFollowBounds(world, ent, scroll, mn, mx)} :
        /\ world' = f.world
        /\ scroll' = f.scroll
        /\ lastOp' = [op |-> "followBounds", n |-> Len(mn) + Len(mx), o |-> ""]
        /\ UNCHANGED <<tweenVars, ent, hooks, result, qt, loop, pt>>

\* one iteration of GameLoop.loop
CountedFrame(ms) ==
    /\ ticks < MaxSteps
    /\ WorldStep(ms)
    /\ ticks' = ticks + 1

\* the frame times of the world, in ms: none, half a second, a second and a half
WorldTimes == {0, 500, 1500}

\* the velocity of the focus, in px/s, and the lead given to follow
FocusVelocities == {<<0, 0>>, <<40, -20>>}
Leads == {<<>>, <<2, 2>>}

\* the arguments given to followBounds, in px: none, a world larger than the
\* screen, and one smaller than the screen
BoundsArgs == {<< <<>>, <<>> >>, << <<0, 0>>, <<144, 148>> >>, << <<10, 10>>, <<32, 24>> >>}

\* World(64, 48) and an Entity "a"
InitWorld ==
    /\ InitNoTweens
    /\ NoQuadTree /\ NoLoop /\ NoVector
    /\ hooks = <<>> /\ result = NoResult /\ ticks = 0
    /\ lastOp = [op |-> "init", n |-> 0, o |-> ""]
    /\ \E p \in FocusPlaces, v \in FocusVelocities :
          ent = [o \in Objects |->
                   IF o = "a"
                   THEN [NewObject("Entity", p[1], p[2], 4, 4) EXCEPT
                            !.vx = v[1] * Milli, !.vy = v[2] * Milli]
                   ELSE NewObject("Image", 0, 0, 4, 4)]
    /\ world = NewWorld(ScreenWidth, ScreenHeight)
    /\ scroll = <<0, 0>>

NextWorld ==
    \/ \E lead \in Leads : FollowCall("a", lead)
    \/ \E b \in BoundsArgs : FollowBoundsCall(b[1], b[2])
    \/ \E ms \in WorldTimes : CountedFrame(ms)

SpecWorld == InitWorld /\ [][NextWorld]_vars

\* the target C15 gives a focus followed with a lead
LeadTarget(w, E, k) ==
    CameraTarget(w, E)[k]
    + w.focusLeadAttr[k] * (IF k = 1 THEN E[w.focus].vx ELSE E[w.focus].vy) * Milli

\* C15 as stated: after follow(o, lead) with a non-zero lead every camera step
\* ends without error and moves the scroll toward
\* o.position - screenCenter + lead * o.velocity.
C15_LeadInTarget ==
    [][(/\ lastOp'.op = "worldFrame"
        /\ world.focus = "a" /\ world.focusLeadAttr # <<>>)
       => /\ world'.error = ""
          /\ \A k \in 1..2 :
                scroll'[k] =
                   ClampAxis(scroll[k]
                             + MulDiv(MulDiv(LeadTarget(world, ent, k) - scroll[k],
                                             world.followSpeed, Milli),
                                      world.elapsed, Milli),
                             world, k)]_vars

\* the follow bounds are configured with min <= max on both axes
BoundsOrdered(w) ==
    /\ w.followMin # <<>> /\ w.followMax # <<>>
    /\ \A k \in 1..2 : w.followMin[k] <= w.followMax[k]

\* C16: once follow bounds with min <= max are configured and a focus is set,
\* every step leaves each coordinate of the scroll within
\* [followMin, followMax], wherever the focus is; followBounds() without
\* arguments sets both bounds to (0, 0), so the scroll is (0, 0) after every
\* step that follows.
C16_ScrollWithinBounds ==
    [][/\ (world'.focus # None /\ BoundsOrdered(world'))
          => \A k \in 1..2 : /\ world'.followMin[k] <= scroll'[k]
                             /\ scroll'[k] <= world'.followMax[k]
       /\ (lastOp'.op = "followBounds" /\ lastOp'.n = 0)
          => /\ world'.followMin = <<0, 0>> /\ world'.followMax = <<0, 0>>
             /\ (world'.focus # None => scroll' = <<0, 0>>)]_vars

\* a frame has cut the scroll to followMax.x, short of a target beyond it
C16_Witness ==
    /\ lastOp.op = "worldFrame" /\ lastOp.n > 0
    /\ world.focus = "a" /\ BoundsOrdered(world)
    /\ world.followMax[1] > world.followMin[1]
    /\ scroll[1] = world.followMax[1]
    /\ CameraTarget(world, ent)[1] > world.followMax[1]

\* ------------------------------------------------------- screen positions

\* the objects as the references between them show them: each child reads the
\* current x and y of its parent
Deref(E) ==
    [o \in Objects |->
        IF E[o].parent # None
        THEN [E[o] EXCEPT !.parentx = E[E[o].parent].x, !.parenty = E[E[o].parent].y]
        ELSE E[o]]

\* o.position = p, in 1/1000000 px
SetPosition(o, p) ==
    /\ ent' = Bind(Deref([ent EXCEPT ![o].x = p[1], ![o].y = p[2]]), LAMBDA E :
                 [E EXCEPT ![o] = Recenter(E[o], scroll)])
    /\ lastOp' = [op |-> "position", n |-> 0, o |-> o]
    /\ UNCHANGED <<tweenVars, sysVars, scroll, hooks, result, ticks>>

\* o.redraw()
Redraw(o) ==
    /\ ent' = [ent EXCEPT ![o] = Recenter(ent[o], scroll)]
    /\ lastOp' = [op |-> "redraw", n |-> 0, o |-> o]
    /\ UNCHANGED <<tweenVars, sysVars, scroll, hooks, result, ticks>>

\* the length the children lists are let grow to
MaxChildren == 2

\* p.addChild(c)
AddChild(p, c) ==
    /\ Len(ent[p].children) < MaxChildren
    /\ ent' = Bind(Deref([ent EXCEPT ![p].children = Append(@, c),
                                     ![c].parent = p]), LAMBDA E :
                 [E EXCEPT ![c] = Recenter(E[c], scroll)])
    /\ lastOp' = [op |-> "addChild", n |-> 0, o |-> c]
    /\ UNCHANGED <<tweenVars, sysVars, scroll, hooks, result, ticks>>

\* Image.removeChild: the objects E after p.removeChild(c)
ChildRemoved(E, p, c, sc) ==
    Bind([E EXCEPT ![p].children = SelectSeq(@, LAMBDA x : x # c),
                   ![c].parent = None], LAMBDA E1 :
        [E1 EXCEPT ![c] = Recenter(E1[c], sc)])

\* p.removeChild(c)
RemoveChild(p, c) ==
    /\ ent' = ChildRemoved(ent, p, c, scroll)
    /\ lastOp' = [op |-> "removeChild", n |-> 0, o |-> c]
    /\ UNCHANGED <<tweenVars, sysVars, scroll, hooks, result, ticks>>

\* o.background(scrolling): scrolling is None (the empty list) or a pair
Background(o, scrolling) ==
    /\ ent' = [ent EXCEPT
                 ![o].scrollx = IF scrolling # <<>> THEN scrolling[1] ELSE 0,
                 ![o].scrolly = IF scrolling # <<>> THEN scrolling[2] ELSE 0]
    /\ lastOp' = [op |-> "background", n |-> Len(scrolling), o |-> o]
    /\ UNCHANGED <<tweenVars, sysVars, scroll, hooks, result, ticks>>

\* the camera moves Game.scroll to s, in 1/1000000 px
ScrollTo(s) ==
    /\ scroll' = s
    /\ lastOp' = [op |-> "scroll", n |-> 0, o |-> ""]
    /\ UNCHANGED <<tweenVars, sysVars, ent, hooks, result, ticks>>

\* positions and scrolls, in 1/1000000 px: whole pixels and fractions
PositionChoices == {<<2500000, -1500000>>, <<-7000000, 4000000>>}
ScrollChoices == {<<0, 0>>, <<3250000, -2000000>>}
ScrollFactors == {<<>>, <<1, 1>>}

InitScreen ==
    /\ InitNoTweens
    /\ InitObjects
    /\ lastOp = [op |-> "init", n |-> 0, o |-> ""]

NextScreen ==
    \/ \E o \in Objects, p \in PositionChoices : SetPosition(o, p)
    \/ \E o \in Objects : Redraw(o)
    \/ \E p \in Objects, c \in Objects : p # c /\ AddChild(p, c)
    \/ \E p \in Objects, c \in Objects : p # c /\ RemoveChild(p, c)
    \/ \E o \in Objects, f \in ScrollFactors : Background(o, f)
    \/ \E s \in ScrollChoices : ScrollTo(s)

SpecScreen == InitScreen /\ [][NextScreen]_vars

\* the calls that recompute the screen position of the object they name
Recomputes == {"position", "redraw", "addChild", "removeChild"}

\* the centre of a pygame rect, in px
RectCenter(r) == <<r.left + r.w \div 2, r.top + r.h \div 2>>

\* worldPos - scrollOffset * scrollFactor (+ the position of the parent), in
\* 1/1000000 px
ClaimedScreenPos(E, o, sc) ==
    <<E[o].x - sc[1] * E[o].scrollx
        + (IF E[o].parent # None THEN E[E[o].parent].x ELSE 0),
      E[o].y - sc[2] * E[o].scrolly
        + (IF E[o].parent # None THEN E[E[o].parent].y ELSE 0)>>

\* C17 as stated: whenever the screen position of an object is recomputed, the
\* centre of its rect is exactly worldPos - scrollOffset * scrollFactor, plus
\* the position of its parent if it has one.
C17_RectCentreIsScreenPos ==
    [][lastOp'.op \in Recomputes
       => \A k \in 1..2 :
             RectCenter(ent'[lastOp'.o].rect)[k] * Micro
                = ClaimedScreenPos(ent', lastOp'.o, scroll')[k]]_vars

\* C17: whenever the screen position of an object is recomputed, the centre of
\* its rect is worldPos - scrollOffset * scrollFactor, plus the position of its
\* parent if it has one, cut toward zero to whole pixels; with a scroll factor
\* of (0, 0) the rect is the same for every scroll offset.
C17_RectCentreIsWholeScreenPos ==
    [][lastOp'.op \in Recomputes
       => /\ \A k \in 1..2 :
                RectCenter(ent'[lastOp'.o].rect)[k]
                   = Trunc(ClaimedScreenPos(ent', lastOp'.o, scroll')[k], Micro)
          /\ (ent'[lastOp'.o].scrollx = 0 /\ ent'[lastOp'.o].scrolly = 0)
             => \A s \in ScrollChoices :
                   Recenter(ent'[lastOp'.o], s).rect = ent'[lastOp'.o].rect]_vars

\* a child has been recomputed under a scroll, at a fraction of a pixel
C17_Witness ==
    /\ lastOp.op \in Recomputes
    /\ \E o \in Objects :
          /\ lastOp.o = o
          /\ ent[o].parent # None /\ ent[ent[o].parent].x # 0
          /\ ent[o].scrollx = 1 /\ scroll[1] # 0
          /\ ClaimedScreenPos(ent, o, scroll)[1] % Micro # 0

\* ---------------------------------------------------------------- GameLoop

\* pygame's event types
NUMEVENTS == 32
QUIT == 12
KEYDOWN == 2

\* registrations made in one run, GameLoop.__init__'s own aside
MaxRegs == 3

\* GameLoop.__init__: an empty handler list for each event type, and self.update
\* as the first updater. A registered function is kept with the serial number
\* of its registration.
NewGameLoop ==
    [handlers |-> [t \in 0..(NUMEVENTS - 1) |-> <<>>],
     updates |-> <<[f |-> "update", serial |-> 0]>>,
     nreg |-> 1, paused |-> FALSE, exited |-> FALSE,
     batch |-> <<>>, trace |-> <<>>, mark |-> "", error |-> ""]

\* the test that opens addHandler and removeHandler; an event type argument is
\* an int v, or something else
InvalidEventType(a) == ~a.isInt \/ a.v > NUMEVENTS

\* the element a Python list of length n gives for index i, or -1 (IndexError)
ListIndex(i, n) ==
    IF 0 <= i /\ i < n THEN i
    ELSE IF -n <= i /\ i < 0 THEN i + n
    ELSE -1

\* the list l without its elements that hold func
Without(l, func) == SelectSeq(l, LAMBDA r : r.f # func)

\* GameLoop.addHandler(evttype, func)
AddHandler(g, a, func) ==
    IF InvalidEventType(a) THEN [g EXCEPT !.error = "ValueError"]
    ELSE IF ListIndex(a.v, NUMEVENTS) = -1 THEN [g EXCEPT !.error = "IndexError"]
    ELSE [g EXCEPT !.handlers[ListIndex(a.v, NUMEVENTS)] =
                       Append(@, [f |-> func, serial |-> g.nreg]),
                   !.nreg = @ + 1, !.error = ""]

\* GameLoop.removeHandler(evttype, func)
RemoveHandler(g, a, func) ==
    IF InvalidEventType(a) THEN [g EXCEPT !.error = "ValueError"]
    ELSE IF ListIndex(a.v, NUMEVENTS) = -1 THEN [g EXCEPT !.error = "IndexError"]
    ELSE [g EXCEPT !.handlers[ListIndex(a.v, NUMEVENTS)] = Without(@, func),
                   !.error = ""]

\* GameLoop.addUpdater(func)
AddUpdater(g, func) ==
    [g EXCEPT !.updates = Append(@, [f |-> func, serial |-> g.nreg]),
              !.nreg = @ + 1, !.error = ""]

\* GameLoop.removeUpdater(func)
RemoveUpdater(g, func) == [g EXCEPT !.updates = Without(@, func), !.error = ""]

\* the calls of the handlers hl for event k of the batch, each leaving its mark
HandlerCalls(hl, k) ==
    [i \in 1..Len(hl) |->
        [kind |-> "handler", f |-> hl[i].f, evt |-> k, serial |-> hl[i].serial,
         mark |-> hl[i].f]]

\* the calls of the updaters, each reading the mark left
UpdaterCalls(uds, mark) ==
    [i \in 1..Len(uds) |->
        [kind |-> "updater", f |-> uds[i].f, evt |-> 0, serial |-> uds[i].serial,
         mark |-> mark]]

\* GameLoop.loop: the for loop over the events got, from event k on; QUIT ends
\* the program once its handlers have run
RECURSIVE DispatchEvents(_, _, _, _)
DispatchEvents(g, evs, k, tr) ==
    IF k > Len(evs) THEN [trace |-> tr, exited |-> FALSE]
    ELSE IF evs[k] = QUIT
    THEN [trace |-> tr \o HandlerCalls(g.handlers[evs[k]], k), exited |-> TRUE]
    ELSE DispatchEvents(g, evs, k + 1, tr \o HandlerCalls(g.handlers[evs[k]], k))

\* the mark the calls of tr leave on a state that held mark
MarkAfter(tr, mark) == IF tr = <<>> THEN mark ELSE tr[Len(tr)].mark

\* GameLoop.loop: one iteration of the while loop, evs the events got
LoopIterationUpdatersFirst(g, evs) ==
    Bind(DispatchEvents(g, evs, 1, <<>>), LAMBDA d :
        [g EXCEPT !.batch = evs, !.exited = d.exited, !.error = "",
                  !.mark = MarkAfter(d.trace, g.mark),
                  !.trace = IF d.exited \/ g.paused THEN d.trace
                            ELSE UpdaterCalls(g.updates, g.mark) \o d.trace])

LoopIteration(g, evs) ==
    Bind(DispatchEvents(g, evs, 1, <<>>), LAMBDA d :
        [g EXCEPT !.batch = evs, !.exited = d.exited, !.error = "",
                  !.mark = MarkAfter(d.trace, g.mark),
                  !.trace = IF d.exited \/ g.paused THEN d.trace
                            ELSE d.trace \o UpdaterCalls(g.updates,
                                                         MarkAfter(d.trace, g.mark))])

\* the arguments of the calls: event types (ints in and out of the range of the
\* table, and a value that is no int), functions, and the events got in one
\* iteration
EventTypeArgs ==
    {[isInt |-> TRUE, v |-> v] : v \in {-NUMEVENTS - 1, -1, KEYDOWN, QUIT,
                                        NUMEVENTS, NUMEVENTS + 1}}
    \cup {[isInt |-> FALSE, v |-> KEYDOWN]}
HandlerFuncs == {"h1", "h2"}
UpdaterFuncs == {"u1"}
\* the event types the game of SpecGameLoop handles
HandledTypes == {[isInt |-> TRUE, v |-> v] : v \in {KEYDOWN, QUIT}}
EventBatches == {<<>>, <<KEYDOWN, KEYDOWN>>, <<KEYDOWN, QUIT, KEYDOWN>>}

\* a call on the game; batch and trace are kept for the iteration just run
LoopCall(op, a, g) ==
    /\ loop' = IF op = "loop" THEN g ELSE [g EXCEPT !.batch = <<>>, !.trace = <<>>]
    /\ lastOp' = [op |-> op, n |-> a.v, o |-> IF a.isInt THEN "int" ELSE "other"]
    /\ UNCHANGED <<tweenVars, entVars, qt, world, pt>>

AddHandlerCall(a, func) ==
    /\ ~loop.exited /\ loop.nreg <= MaxRegs
    /\ LoopCall("addHandler", a, AddHandler(loop, a, func))

RemoveHandlerCall(a, func) ==
    /\ ~loop.exited
    /\ LoopCall("removeHandler", a, RemoveHandler(loop, a, func))

AddUpdaterCall(func) ==
    /\ ~loop.exited /\ loop.nreg <= MaxRegs
    /\ LoopCall("addUpdater", [isInt |-> TRUE, v |-> 0], AddUpdater(loop, func))

RemoveUpdaterCall(func) ==
    /\ ~loop.exited
    /\ LoopCall("removeUpdater", [isInt |-> TRUE, v |-> 0], RemoveUpdater(loop, func))

\* game.paused = b
SetPaused(b) ==
    /\ ~loop.exited
    /\ LoopCall("paused", [isInt |-> TRUE, v |-> 0], [loop EXCEPT !.paused = b])

Iterate(evs) ==
    /\ ~loop.exited
    /\ LoopCall("loop", [isInt |-> TRUE, v |-> Len(evs)], LoopIteration(loop, evs))

InitGameLoop ==
    /\ InitNoTweens
    /\ NoQuadTree /\ NoWorld /\ NoVector
    /\ ent = <<>> /\ scroll = <<0, 0>> /\ hooks = <<>> /\ result = NoResult /\ ticks = 0
    /\ lastOp = [op |-> "init", n |-> 0, o |-> ""]
    /\ loop = NewGameLoop

NextGameLoop ==
    \/ \E a \in HandledTypes, f \in HandlerFuncs : AddHandlerCall(a, f)
    \/ \E a \in HandledTypes, f \in HandlerFuncs : RemoveHandlerCall(a, f)
    \/ \E f \in UpdaterFuncs : AddUpdaterCall(f)
    \/ \E f \in UpdaterFuncs \cup {"update"} : RemoveUpdaterCall(f)
    \/ \E b \in BOOLEAN : SetPaused(b)
    \/ \E evs \in EventBatches : Iterate(evs)

SpecGameLoop == InitGameLoop /\ [][NextGameLoop]_vars

\* the positions of the trace that hold calls of one kind
CallsOf(tr, kind) == {i \in DOMAIN tr : tr[i].kind = kind}

\* C18: in each iteration of the loop every handler call precedes every updater
\* call, and when an updater runs every pending event has been given to every
\* handler of its type; the handlers of one event run in the order of their
\* registration, and so do the updaters; each updater sees the state the last
\* handler of that frame left.
C18_EventsBeforeUpdaters ==
    lastOp.op = "loop" =>
        LET tr == loop.trace
            H == CallsOf(tr, "handler")
            U == CallsOf(tr, "updater")
        IN  /\ \A i \in H, j \in U : i < j
            /\ U # {} =>
                  \A k \in DOMAIN loop.batch :
                     \A h \in DOMAIN loop.handlers[loop.batch[k]] :
                        \E i \in H :
                           /\ tr[i].evt = k
                           /\ tr[i].serial = loop.handlers[loop.batch[k]][h].serial
            /\ \A i \in H, j \in H :
                  /\ (i < j => tr[i].evt <= tr[j].evt)
                  /\ ((i < j /\ tr[i].evt = tr[j].evt) => tr[i].serial < tr[j].serial)
            /\ \A i \in U, j \in U : i < j => tr[i].serial < tr[j].serial
            /\ (~loop.paused /\ ~loop.exited) =>
                  \A u \in DOMAIN loop.updates :
                     \E j \in U : tr[j].serial = loop.updates[u].serial
            /\ \A j \in U : \A i \in H :
                  (\A i2 \in H : i2 <= i) => tr[j].mark = tr[i].f

\* an iteration has given an event to two handlers, then run two updaters that
\* saw what the second handler did
C18_Witness ==
    /\ lastOp.op = "loop"
    /\ \E i, j \in CallsOf(loop.trace, "handler") :
          /\ i < j /\ loop.trace[i].evt = loop.trace[j].evt
          /\ loop.trace[i].f # loop.trace[j].f
          /\ \E u, v \in CallsOf(loop.trace, "updater") :
                /\ u < v /\ j < u
                /\ loop.trace[u].mark = loop.trace[j].f
                /\ \A i2 \in CallsOf(loop.trace, "handler") : i2 <= j

\* registrations and removals of handlers alone, with every kind of event type
NextHandlers ==
    \/ \E a \in EventTypeArgs, f \in HandlerFuncs : AddHandlerCall(a, f)
    \/ \E a \in EventTypeArgs, f \in HandlerFuncs : RemoveHandlerCall(a, f)

SpecHandlers == InitGameLoop /\ [][NextHandlers]_vars

\* the event type of the last call is no int in 0 .. NUMEVENTS - 1
Unrecognized(call) == call.o # "int" \/ call.n < 0 \/ call.n >= NUMEVENTS

\* C19 as stated: addHandler and removeHandler called with an event type that
\* is no int in 0 .. NUMEVENTS - 1 (negative ints and NUMEVENTS itself
\* included) fail with the invalid-event-type error and leave every handler
\* list as it was.
C19_InvalidTypeRejected ==
    [][(lastOp'.op \in {"addHandler", "removeHandler"} /\ Unrecognized(lastOp'))
       => /\ loop'.error = "ValueError"
          /\ loop'.handlers = loop.handlers]_vars

\* ------------------------------------------------------------------ Vector

\* Vector objects made in one run
MaxVectors == 3

\* the whole part of the square root of n, between lo and hi
RECURSIVE IsqrtIn(_, _, _)
IsqrtIn(n, lo, hi) ==
    IF lo >= hi THEN lo
    ELSE LET mid == (lo + hi + 1) \div 2
         IN  IF mid * mid <= n THEN IsqrtIn(n, mid, hi) ELSE IsqrtIn(n, lo, mid - 1)

\* Vector.length: math.hypot(x, y), in thousandths as x and y are
VectorLength(v) == IsqrtIn(v.x * v.x + v.y * v.y, 0, Min(v.x * v.x + v.y * v.y, 46340))

\* Vector.normalized on the vector id of the heap h: the heap, the id of the
\* vector returned (0 if none) and the error raised
VectorNormalizedOrZero(h, id) ==
    Bind(VectorLength(h[id]), LAMBDA l :
        IF l = 0
        THEN [heap |-> Append(h, [x |-> 0, y |-> 0]), ret |-> Len(h) + 1, error |-> ""]
        ELSE [heap |-> Append(h, [x |-> Trunc(h[id].x * Milli, l),
                                  y |-> Trunc(h[id].y * Milli, l)]),
              ret |-> Len(h) + 1, error |-> ""])

VectorNormalized(h, id) ==
    Bind(VectorLength(h[id]), LAMBDA l :
        IF l = 0
        THEN [heap |-> h, ret |-> 0, error |-> "ZeroDivisionError"]
        ELSE [heap |-> Append(h, [x |-> Trunc(h[id].x * Milli, l),
                                  y |-> Trunc(h[id].y * Milli, l)]),
              ret |-> Len(h) + 1, error |-> ""])

\* v.normalized(), v the vector id
Normalized(id) ==
    /\ Len(pt.heap) < MaxVectors
    /\ pt' = VectorNormalized(pt.heap, id)
    /\ lastOp' = [op |-> "normalized", n |-> id, o |-> ""]
    /\ UNCHANGED <<tweenVars, entVars, qt, world, loop>>

\* the coordinates of the first vector, in thousandths
Coordinates == {-4000, -500, 0, 600, 1000, 3000}

\* Vector(x, y)
InitVector ==
    /\ InitNoTweens
    /\ NoQuadTree /\ NoWorld /\ NoLoop
    /\ ent = <<>> /\ scroll = <<0, 0>> /\ hooks = <<>> /\ result = NoResult /\ ticks = 0
    /\ lastOp = [op |-> "init", n |-> 0, o |-> ""]
    /\ \E x \in Coordinates, y \in Coordinates :
          pt = [heap |-> <<[x |-> x, y |-> y]>>, ret |-> 0, error |-> ""]

NextVector == \E id \in DOMAIN pt.heap : Normalized(id)

SpecVector == InitVector /\ [][NextVector]_vars

\* C20: normalized() on a vector of length 0 ends in a divide-by-zero error and
\* returns no vector; on a non-zero vector it returns a vector that did not
\* exist before; either way the x and y of the receiver are as they were.
C20_NormalizedOfZeroFails ==
    [][lastOp'.op = "normalized"
       => /\ pt'.heap[lastOp'.n] = pt.heap[lastOp'.n]
          /\ (pt.heap[lastOp'.n].x = 0 /\ pt.heap[lastOp'.n].y = 0)
             => /\ pt'.error = "ZeroDivisionError"
                /\ pt'.ret = 0 /\ pt'.heap = pt.heap
          /\ (pt.heap[lastOp'.n].x # 0 \/ pt.heap[lastOp'.n].y # 0)
             => /\ pt'.error = ""
                /\ pt'.ret \in DOMAIN pt'.heap /\ pt'.ret \notin DOMAIN pt.heap]_vars

\* normalized() has been called on the zero vector
C20_Witness ==
    /\ lastOp.op = "normalized"
    /\ pt.heap[lastOp.n] = [x |-> 0, y |-> 0]
    /\ pt.error = "ZeroDivisionError"

\* ---------------------------------------------------------------- children

\* addChild and removeChild alone, between any two objects
NextChildren ==
    \/ \E p \in Objects, c \in Objects : AddChild(p, c)
    \/ \E p \in Objects, c \in Objects : RemoveChild(p, c)

SpecChildren == InitScreen /\ [][NextChildren]_vars

\* the places c has in the children list of p
PlacesIn(E, p, c) == {k \in DOMAIN E[p].children : E[p].children[k] = c}

\* a is reached from c in n steps or fewer along parent
RECURSIVE AncestorWithin(_, _, _, _)
AncestorWithin(E, a, c, n) ==
    /\ n > 0
    /\ E[c].parent # None
    /\ (E[c].parent = a \/ AncestorWithin(E, a, E[c].parent, n - 1))

\* C21 as stated: after any addChild and removeChild calls every object occurs
\* in the children list of at most one object and at most once, that object is
\* the one its parent refers to, an object in nobody's list has parent None,
\* and no object is its own ancestor.
C21_ChildrenAreForest ==
    \A c \in Objects :
       /\ Cardinality({p \in Objects : PlacesIn(ent, p, c) # {}}) <= 1
       /\ \A p \in Objects :
             /\ Cardinality(PlacesIn(ent, p, c)) <= 1
             /\ PlacesIn(ent, p, c) # {} => ent[c].parent = p
       /\ (\A p \in Objects : PlacesIn(ent, p, c) = {}) => ent[c].parent = None
       /\ ~AncestorWithin(ent, c, c, Cardinality(Objects))

\* ------------------------------------------------- callbacks on the holder

\* what the function given as complete does to the holder when its tween ends:
\* nothing, removeTween of its own tween or of the other one, or addTween of
\* the other one
CallbackKinds == {"none", "removeSelf", "removeOther", "addOther"}
OtherTween(id) == CHOOSE j \in TweenIds : j # id

\* Tween.onComplete of tween id
OnComplete(st, id) ==
    IF st.tw[id].complete = "removeSelf"
    THEN [st EXCEPT !.tweens = RemoveTween(@, id)]
    ELSE IF st.tw[id].complete = "removeOther"
    THEN [st EXCEPT !.tweens = RemoveTween(@, OtherTween(id))]
    ELSE IF st.tw[id].complete = "addOther"
    THEN [st EXCEPT !.tweens = Append(@, <<OtherTween(id), ONESHOT>>)]
    ELSE st

\* one pair of Tweener.update, with the callback tw.update runs; st.examined
\* lists the pairs gone through
TweenerStepWithCallback(st, tt, dt) ==
    Bind(TweenerStep(st, tt, dt), LAMBDA s1 :
        [(IF s1.fired[tt[1]] > st.fired[tt[1]] THEN OnComplete(s1, tt[1]) ELSE s1)
            EXCEPT !.examined = Append(@, tt)])

\* the for loop of Tweener.update from place k on, snap being self.tweens[:]
RECURSIVE ExamineLiveList(_, _, _, _)
ExamineLiveList(snap, st, dt, k) ==
    IF k > Len(st.tweens) THEN st
    ELSE Bind(TweenerStepWithCallback(st, st.tweens[k], dt), LAMBDA s1 :
             ExamineLiveList(snap, s1, dt, k + 1))

RECURSIVE ExamineFrom(_, _, _, _)
ExamineFrom(snap, st, dt, k) ==
    IF k > Len(snap) THEN st
    ELSE Bind(TweenerStepWithCallback(st, snap[k], dt), LAMBDA s1 :
             ExamineFrom(snap, s1, dt, k + 1))

\* Tweener.update of the Tweener "a" in a frame with Game.elapsed = dt
TweenerUpdate(dt) ==
    /\ Len(tweens) <= MaxTweens
    /\ \E st \in {ExamineFrom(tweens,
                              [tw |-> tw, tweens |-> tweens, fired |-> NoFired,
                               calls |-> calls, examined |-> <<>>],
                              dt, 1)} :
       \E u \in {EntityUpdate(ent["a"], dt, scroll)} :
          /\ tw' = st.tw
          /\ tweens' = st.tweens
          /\ fired' = st.fired
          /\ calls' = st.calls
          /\ ent' = [ent EXCEPT !["a"] = u.e]
          /\ hooks' = u.hooks
          /\ result' = [op |-> "Tweener.update", examined |-> st.examined]
          /\ lastOp' = [op |-> "tweenerUpdate", n |-> dt, o |-> "a"]
          /\ UNCHANGED <<sysVars, scroll, ticks>>

\* a holder with one or more started tweens, the first tween made with a
\* function for complete
InitCallbacks ==
    /\ \E d \in DurationChoices, cb \in CallbackKinds :
       \E n \in 1..MaxTweens :
       \E s \in [1..n -> TweenIds \X Policies] :
          /\ tweens = s
          /\ tw = [i \in TweenIds |->
                     [TweenStart(NewTween(0, 10, d[i])) EXCEPT
                         !.complete = IF i = 1 THEN cb ELSE "none"]]
    /\ fired = NoFired
    /\ calls = NoFired
    /\ lastOp = [op |-> "init", n |-> 0, o |-> ""]
    /\ InitObjects

NextCallbacks == \E dt \in Elapsed \ {0} : TweenerUpdate(dt)

SpecCallbacks == InitCallbacks /\ [][NextCallbacks]_vars

\* C22: one Tweener.update goes through the pairs that are in the holder's
\* list when the call starts, each once and in the order of the list, whatever
\* ONESHOT pairs are removed and whatever the callbacks add to the list or
\* remove from it during the call.
C22_EachPairExaminedOnce ==
    [][lastOp'.op = "tweenerUpdate" => result'.examined = tweens]_vars

\* a callback has changed the list during an update of two pairs or more
C22_Witness ==
    /\ lastOp.op = "tweenerUpdate"
    /\ Len(result.examined) >= 2
    /\ \E i \in TweenIds : fired[i] > 0 /\ tw[i].complete # "none"
    /\ result.examined # tweens

\* ----------------------------------------------------------------- effects

MOUSEBUTTONDOWN == 5

\* Quake.__init__; duration in ms, origscroll the vector __origscroll refers to
NewQuake(sc) == [intensity |-> 0, duration |-> 0, origscroll |-> sc]

\* Effect.running
EffectRunning(q) == q.duration > 0

\* The game as the effects and the callbacks see it: S = [loop, quake, scroll]

\* Quake.start(intensity, duration), with Effect.start
QuakeStart(S, intensity, duration) ==
    [S EXCEPT !.quake = [intensity |-> intensity, duration |-> duration,
                         origscroll |-> S.scroll],
              !.loop = AddUpdater(S.loop, "quake.update")]

\* Quake.stop, with Effect.stop (the world holds no entities to redraw)
QuakeStop(S) ==
    [S EXCEPT !.scroll = S.quake.origscroll,
              !.quake.duration = 0,
              !.loop = RemoveUpdater(S.loop, "quake.update")]

\* Quake.effect, off being the random vector drawn
QuakeEffect(S, off) ==
    [S EXCEPT !.scroll = <<S.quake.origscroll[1] + off[1],
                           S.quake.origscroll[2] + off[2]>>]

\* Effect.update of the quake, with Game.elapsed = ms
EffectUpdate(S, ms, off) ==
    IF EffectRunning(S.quake)
    THEN Bind([S EXCEPT !.quake.duration = @ - ms], LAMBDA S1 :
             IF S1.quake.duration > 0 THEN QuakeEffect(S1, off) ELSE QuakeStop(S1))
    ELSE S

\* the call of a registered function: the update of the quake, the click
\* handler of a Clickable whose click kills it, or a function that leaves the
\* game as it is
Invoke(S, kind, k, entry, ms, off) ==
    Bind([S EXCEPT !.loop.trace =
              Append(@, [kind |-> kind, f |-> entry.f, evt |-> k,
                         serial |-> entry.serial, mark |-> ""])], LAMBDA S1 :
        IF entry.f = "quake.update" THEN EffectUpdate(S1, ms, off)
        ELSE IF entry.f \in {"a.isClicked", "b.isClicked"}
        THEN [S1 EXCEPT !.loop = RemoveHandler(S1.loop,
                                     [isInt |-> TRUE, v |-> MOUSEBUTTONDOWN], entry.f)]
        ELSE S1)

\* GameLoop.loop: for handler in self._evtHandlers[evt.type], from the i-th on;
\* the list is the one the handlers change
RECURSIVE RunHandlers(_, _, _, _, _, _)
RunHandlers(S, evs, k, i, ms, off) ==
    IF i > Len(S.loop.handlers[evs[k]]) THEN S
    ELSE RunHandlers(Invoke(S, "handler", k, S.loop.handlers[evs[k]][i], ms, off),
                     evs, k, i + 1, ms, off)

\* GameLoop.loop: for evt in pgevent.get(), from the k-th on
RECURSIVE RunEvents(_, _, _, _, _)
RunEvents(S, evs, k, ms, off) ==
    IF k > Len(evs) THEN S
    ELSE RunEvents(RunHandlers(S, evs, k, 1, ms, off), evs, k + 1, ms, off)

\* GameLoop.loop: for ud in self._updates, from the i-th on; the list is the
\* one the updaters change
RECURSIVE RunUpdaters(_, _, _, _)
RunUpdaters(S, i, ms, off) ==
    IF i > Len(S.loop.updates) THEN S
    ELSE RunUpdaters(Invoke(S, "updater", 0, S.loop.updates[i], ms, off), i + 1, ms, off)

\* GameLoop.loop: one iteration, of a game that is not paused and is not quit
GameIteration(S, evs, ms, off) ==
    Bind([S EXCEPT !.loop.batch = evs, !.loop.trace = <<>>, !.loop.error = ""], LAMBDA S0 :
    Bind(RunEvents(S0, evs, 1, ms, off), LAMBDA S1 :
        RunUpdaters(S1, 1, ms, off)))

TheGame == [loop |-> loop, quake |-> world.quake, scroll |-> scroll]

\* S becomes the game; scroll0 is Game.scroll before the first start
GameCall(op, n, S, started) ==
    /\ loop' = S.loop
    /\ world' = [world EXCEPT !.quake = S.quake, !.started = started]
    /\ scroll' = S.scroll
    /\ lastOp' = [op |-> op, n |-> n, o |-> ""]
    /\ UNCHANGED <<tweenVars, ent, hooks, result, ticks, qt, pt>>

\* quake.start(duration = d), d in ms
QuakeStartCall(d) ==
    /\ loop.nreg <= MaxRegs
    /\ GameCall("quakeStart", d, QuakeStart(TheGame, 1, d), TRUE)

\* quake.stop()
QuakeStopCall ==
    /\ ~loop.exited
    /\ GameCall("quakeStop", 0, QuakeStop(TheGame), world.started)

\* Clickable.__init__ of the sprite whose click handler is f
NewClickable(f) ==
    /\ loop.nreg <= MaxRegs
    /\ \A h \in DOMAIN loop.handlers[MOUSEBUTTONDOWN] :
          loop.handlers[MOUSEBUTTONDOWN][h].f # f
    /\ GameCall("clickable", 0,
                [TheGame EXCEPT !.loop = AddHandler(loop, [isInt |-> TRUE,
                                                           v |-> MOUSEBUTTONDOWN], f)],
                world.started)

\* game.addUpdater(f)
NewUpdater(f) ==
    /\ loop.nreg <= MaxRegs
    /\ GameCall("updater", 0, [TheGame EXCEPT !.loop = AddUpdater(loop, f)],
                world.started)

\* one iteration of the loop: the events got, Game.elapsed and the vector the
\* quake draws
GameFrame(evs, ms, off) ==
    /\ ~loop.exited /\ ~loop.paused
    /\ GameCall("gameFrame", ms, GameIteration(TheGame, evs, ms, off), world.started)

\* in 1/1000000 px
QuakeOffsets == {<<0, 0>>, <<3000000, -2000000>>}
QuakeDurations == {500, 1000}

InitEffects ==
    /\ InitNoTweens
    /\ NoQuadTree /\ NoVector
    /\ ent = <<>> /\ hooks = <<>> /\ result = NoResult /\ ticks = 0
    /\ lastOp = [op |-> "init", n |-> 0, o |-> ""]
    /\ loop = NewGameLoop
    /\ scroll \in {<<0, 0>>, <<5000000, 5000000>>}
    /\ world = [quake |-> NewQuake(scroll), scroll0 |-> scroll, started |-> FALSE]

NextEffects ==
    \/ \E d \in QuakeDurations : QuakeStartCall(d)
    \/ QuakeStopCall
    \/ \E f \in {"a.isClicked", "b.isClicked"} : NewClickable(f)
    \/ NewUpdater("u1")
    \/ \E evs \in {<<>>, <<MOUSEBUTTONDOWN>>}, off \in QuakeOffsets : GameFrame(evs, 500, off)

SpecEffects == InitEffects /\ [][NextEffects]_vars

\* C23 as stated: whatever start, update and stop calls were made on the quake,
\* once it has been started and is no longer running Game.scroll is what it was
\* before the first start, and the update of the quake is not among the
\* updaters.
C23_QuakeRestoresScroll ==
    (world.started /\ ~EffectRunning(world.quake))
    => /\ scroll = world.scroll0
       /\ \A u \in DOMAIN loop.updates : loop.updates[u].f # "quake.update"

\* the calls of the trace tr of one kind, for event k, of the registration serial
CallsTo(tr, kind, k, serial) ==
    {i \in DOMAIN tr : tr[i].kind = kind /\ tr[i].evt = k /\ tr[i].serial = serial}

\* C29 as stated: in one iteration of the loop every updater registered when
\* the iteration begins, and every handler registered for the type of a
\* dispatched event, is called exactly once, also when one of them removes
\* itself or another during the iteration.
C29_EachCallbackOnce ==
    [][lastOp'.op = "gameFrame"
       => /\ \A u \in DOMAIN loop.updates :
                Cardinality(CallsTo(loop'.trace, "updater", 0,
                                    loop.updates[u].serial)) = 1
          /\ \A k \in DOMAIN loop'.batch :
                \A h \in DOMAIN loop.handlers[loop'.batch[k]] :
                   Cardinality(CallsTo(loop'.trace, "handler", k,
                                       loop.handlers[loop'.batch[k]][h].serial)) = 1]_vars

\* ------------------------------------------------------- drag and the clamp

\* the velocity C24 gives an axis with drag d (px/s) after a frame of ms:
\* v less d * dt toward 0, or 0
ClaimedDrag(v, d, ms) == IF Abs(v) > Abs(d) * ms THEN v - Abs(d) * ms * Sign(v) ELSE 0

\* C24 as stated: in an update with frame time dt, on an axis with no
\* acceleration, a drag d and a velocity, the drag takes d * dt off the
\* magnitude of the velocity, or makes it 0 if that would cross zero, and the
\* sign of the velocity never changes.
C24_DragScaledByFrameTime ==
    [][(/\ lastOp'.op = "updateObject" /\ lastOp'.n > 1
        /\ ent["a"].alive /\ ~ent["a"].fixed /\ ent["a"].maxVelocity = <<>>
        /\ ent["a"].ax = 0 /\ ent["a"].dragx # 0 /\ ent["a"].vx # 0)
       => /\ ent'["a"].vx = ClaimedDrag(ent["a"].vx, ent["a"].dragx, lastOp'.n)
          /\ Sign(ent'["a"].vx) \in {0, Sign(ent["a"].vx)}]_vars

\* maxVelocity is set, with positive components
MaxVelocityPositive(e) ==
    e.maxVelocity # <<>> /\ e.maxVelocity[1] > 0 /\ e.maxVelocity[2] > 0

\* |velocity| <= maxVelocity on both axes
VelocityWithinMax(e) ==
    /\ Abs(e.vx) <= e.maxVelocity[1] * Milli
    /\ Abs(e.vy) <= e.maxVelocity[2] * Milli

\* C25 as stated: with maxVelocity set to positive components, after every
\* update of an alive, non-fixed entity |velocity| <= maxVelocity on both axes.
C25_VelocityWithinMax ==
    [][(/\ lastOp'.op = "updateObject"
        /\ ent["a"].alive /\ ~ent["a"].fixed /\ MaxVelocityPositive(ent["a"]))
       => VelocityWithinMax(ent'["a"])]_vars

\* C25: with maxVelocity set to positive components, after every update with a
\* frame time above 1 ms of an alive, non-fixed entity |velocity| <=
\* maxVelocity on both axes, for negative as for positive velocities and
\* however the velocity was set before.
C25_VelocityWithinMaxAfterMotion ==
    [][(/\ lastOp'.op = "updateObject" /\ lastOp'.n > 1
        /\ ent["a"].alive /\ ~ent["a"].fixed /\ MaxVelocityPositive(ent["a"]))
       => VelocityWithinMax(ent'["a"])]_vars

\* a velocity of -100 px/s set past the setter has been cut to -50 px/s by the
\* first update
C25_Witness ==
    /\ lastOp.op = "updateObject" /\ lastOp.n > 1 /\ ticks = 1
    /\ ent["a"].alive /\ ~ent["a"].fixed /\ MaxVelocityPositive(ent["a"])
    /\ ent["a"].ax = 0 /\ ent["a"].dragx = 0
    /\ ent["a"].vx = -(ent["a"].maxVelocity[1] * Milli)

\* ------------------------------------------------------------ motion hooks

\* one frame of the game loop for the Entity o, with Game.elapsed = ms; the
\* positions its hooks saw are kept
UpdateHooked(o, ms) ==
    /\ ticks < MaxTicks
    /\ \E u \in {EntityUpdate(ent[o], ms, scroll)} :
        /\ ent' = [ent EXCEPT ![o] = u.e]
        /\ hooks' = u.hooks
        /\ ticks' = ticks + 1
        /\ result' = [op |-> "Entity.update", seen |-> u.seen]
        /\ lastOp' = [op |-> "updateHooked", n |-> ms, o |-> o]
        /\ UNCHANGED <<sysVars, tweenVars, scroll>>

\* an Entity of a subclass that overrides onMoveX, with a velocity, an
\* acceleration and a drag
InitHooks ==
    /\ InitNoTweens
    /\ Unused
    /\ \E v \in Velocities, a \in Accelerations, d \in Drags,
          hk \in {"none", "setVy", "setY"}, alive \in BOOLEAN :
          ent = [o \in Objects |->
                   IF o = "a"
                   THEN [MovingEntity(v, a, d, <<>>, <<0, 0, FALSE>>, FALSE) EXCEPT
                            !.onMoveX = hk, !.alive = alive]
                   ELSE NewObject("Image", 1, 1, 4, 2)]
    /\ scroll = <<0, 0>>
    /\ hooks = <<>>
    /\ result = NoResult
    /\ ticks = 0
    /\ lastOp = [op |-> "init", n |-> 0, o |-> ""]

NextHooks ==
    \/ \E ms \in FrameTimes : UpdateHooked("a", ms)
    \/ Kill("a")
    \/ Revive("a")

SpecHooks == InitHooks /\ [][NextHooks]_vars

\* C26: an update that integrates motion runs onMoveX, onMoveY and onMove once
\* each, in that order; onMoveX sees the new x with the old y; the y move
\* comes after onMoveX and uses the velocity.y or the y that onMoveX has set.
C26_HooksBetweenMoves ==
    [][(/\ lastOp'.op = "updateHooked" /\ lastOp'.n > 1
        /\ ent["a"].alive /\ ~ent["a"].fixed)
       => /\ hooks' = <<"onMoveX", "onMoveY", "onMove">>
          /\ result'.seen[1] = <<ent["a"].x + ent'["a"].vx * lastOp'.n, ent["a"].y>>
          /\ ent["a"].onMoveX = "setVy"
             => /\ ent'["a"].vy = HookVy * Milli
                /\ ent'["a"].y = ent["a"].y + HookVy * Milli * lastOp'.n
          /\ ent["a"].onMoveX = "setY"
             => ent'["a"].y = HookY * Micro + ent'["a"].vy * lastOp'.n
          /\ result'.seen[2] = <<ent'["a"].x, ent'["a"].y>>
          /\ result'.seen[3] = <<ent'["a"].x, ent'["a"].y>>]_vars

\* an update has moved y by the velocity.y that onMoveX set in that frame
C26_Witness ==
    /\ lastOp.op = "updateHooked" /\ lastOp.n > 1 /\ ticks = 1
    /\ ent["a"].alive /\ ent["a"].onMoveX = "setVy"
    /\ hooks = <<"onMoveX", "onMoveY", "onMove">>
    /\ result.seen[1][2] = 0
    /\ ent["a"].y = HookVy * Milli * lastOp.n
    /\ ent["a"].x # 0

\* --------------------------------------------------------------- animation

\* the longest frame list of an animation
MaxFrames == 4

\* Image.play(name, startFrame); startFrame is <<>> for None
Play(e, name, startFrame) ==
    IF name = e.currentAnimation
    THEN [e EXCEPT !.animated = TRUE,
                   !.currentFrame = IF startFrame # <<>> THEN startFrame[1] ELSE @]
    ELSE [e EXCEPT !.animated = TRUE,
                   !.currentAnimation = IF name # None THEN name ELSE @,
                   !.currentFrame = IF startFrame # <<>> THEN startFrame[1] ELSE 0]

\* Image.stop
StopAnimation(e) == [e EXCEPT !.animated = FALSE, !.currentAnimation = None]

\* Image.addAnimation(name, frames)
AddAnimation(e, name, frames) ==
    [e EXCEPT !.animations[name] = @ \o frames]

\* Image.removeAnimation(name)
RemoveAnimation(e, name) == [e EXCEPT !.animations[name] = <<>>]

\* a call of a method of the Image o that leaves everything else alone
ImageCall(o, op, e) ==
    /\ ent' = [ent EXCEPT ![o] = e]
    /\ hooks' = <<>>
    /\ result' = NoResult
    /\ lastOp' = [op |-> op, n |-> 0, o |-> o]
    /\ UNCHANGED <<sysVars, tweenVars, scroll, ticks>>

StartFrames == {<<>>, <<-2>>, <<1>>, <<5>>}
FrameLists == {<<2, 1>>}

PlayCall(o) ==
    \E name \in AnimationNames \cup {None}, startFrame \in StartFrames :
        /\ name # None => ent[o].animations[name] # <<>>
        /\ ImageCall(o, "play", Play(ent[o], name, startFrame))

StopCall(o) ==
    /\ ent[o].animated
    /\ ImageCall(o, "stop", StopAnimation(ent[o]))

AddAnimationCall(o) ==
    \E name \in AnimationNames, frames \in FrameLists :
        /\ Len(ent[o].animations[name]) + Len(frames) <= MaxFrames
        /\ ImageCall(o, "addAnimation", AddAnimation(ent[o], name, frames))

RemoveAnimationCall(o) ==
    \E name \in AnimationNames :
        /\ ent[o].animations[name] # <<>>
        /\ ImageCall(o, "removeAnimation", RemoveAnimation(ent[o], name))

\* one frame of the game loop for the Image o
UpdateImage(o) ==
    /\ ticks < MaxTicks
    /\ ent' = [ent EXCEPT ![o] = ImageUpdate(ent[o], scroll)]
    /\ hooks' = <<>>
    /\ ticks' = ticks + 1
    /\ result' = NoResult
    /\ lastOp' = [op |-> "updateImage", n |-> 0, o |-> o]
    /\ UNCHANGED <<sysVars, tweenVars, scroll>>

\* an Image with three frames loaded and the animation "blink" of four
InitAnimation ==
    /\ InitNoTweens
    /\ Unused
    /\ ent = [o \in Objects |->
                [NewObject("Image", 1, 1, 4, 2) EXCEPT
                    !.nframes = 3, !.animations["blink"] = <<1, 1, 2, 0>>]]
    /\ scroll = <<0, 0>>
    /\ hooks = <<>>
    /\ result = NoResult
    /\ ticks = 0
    /\ lastOp = [op |-> "init", n |-> 0, o |-> ""]

NextAnimation ==
    \/ PlayCall("a")
    \/ StopCall("a")
    \/ AddAnimationCall("a")
    \/ RemoveAnimationCall("a")
    \/ UpdateImage("a")
    \/ Kill("a")
    \/ Revive("a")

SpecAnimation == InitAnimation /\ [][NextAnimation]_vars

\* C27: an update of an alive, animated image whose active frame list is not
\* empty takes currentFrame to (currentFrame + 1) modulo the length of that
\* list, so to a value from 0 to the length - 1, whatever frame play() set.
C27_FrameAdvancesModuloLength ==
    [][(/\ lastOp'.op = "updateImage"
        /\ ent["a"].alive /\ ent["a"].animated /\ ActiveLength(ent["a"]) > 0)
       => /\ ent'["a"].currentFrame =
                 (ent["a"].currentFrame + 1) % ActiveLength(ent["a"])
          /\ ent'["a"].currentFrame >= 0
          /\ ent'["a"].currentFrame < ActiveLength(ent'["a"])]_vars

\* an update has taken the animation "blink" of four frames, started at frame 1
\* or at frame 5,
\* to frame 2
C27_Witness ==
    /\ lastOp.op = "updateImage" /\ ticks = 1
    /\ ent["a"].alive /\ ent["a"].animated
    /\ ent["a"].currentAnimation = "blink"
    /\ Len(ent["a"].animations["blink"]) = 4
    /\ ent["a"].currentFrame = 2

\* ----------------------------------------------------------------- Emitter

\* the particles an Emitter is let emit
MaxParticles == 3
ParticleNames == <<"p1", "p2", "p3", "p4">>
Particles == {ParticleNames[i] : i \in 1..MaxParticles}
EmitterId == "emitter"

\* a particle as _doEmit makes it, before addChild: an Entity with a
\* duration, in ms
NewParticle(d) == [duration |-> d] @@ NewObject("Entity", 0, 0, 2, 2)

\* Emitter.__init__
NewEmitter == [duration |-> 1000] @@ NewObject("Image", 0, 0, 0, 0)

\* Emitter.update, the loop over self.children from its k-th element on, with
\* Game.elapsed = ms: removeChild takes the child out of the list the loop is
\* going through
RECURSIVE ExpireFrom(_, _, _, _)
ExpireFrom(E, k, ms, sc) ==
    IF k > Len(E[EmitterId].children) THEN E
    ELSE Bind(E[EmitterId].children[k], LAMBDA c :
         Bind([E EXCEPT ![c].duration = @ - ms], LAMBDA E1 :
         ExpireFrom(IF E1[c].duration <= 0
                    THEN ChildRemoved(E1, EmitterId, c, sc) ELSE E1,
                    k + 1, ms, sc)))

\* Emitter.update: Image.update, then the loop
EmitterUpdate(ms) ==
    /\ ticks < MaxTicks
    /\ ent' = Bind([ent EXCEPT ![EmitterId] = ImageUpdate(@, scroll)], LAMBDA E :
                 ExpireFrom(E, 1, ms, scroll))
    /\ ticks' = ticks + 1
    /\ lastOp' = [op |-> "emitterUpdate", n |-> ms, o |-> ""]
    /\ UNCHANGED <<tweenVars, sysVars, scroll, hooks, result>>

\* Emitter._doEmit: a particle with a duration of d ms becomes a child
DoEmit(c, d) ==
    /\ ent[c].parent = None
    /\ ent' = [ent EXCEPT
                 ![EmitterId].children = Append(@, c),
                 ![c] = Recenter([NewParticle(d) EXCEPT
                                     !.parent = EmitterId,
                                     !.parentx = ent[EmitterId].x,
                                     !.parenty = ent[EmitterId].y], scroll)]
    /\ lastOp' = [op |-> "emit", n |-> d, o |-> ""]
    /\ UNCHANGED <<tweenVars, sysVars, scroll, hooks, result, ticks>>

\* lifetimes of particles and frame times, in ms
ParticleDurations == {1, 2, 3}
EmitterTimes == {1, 2}

InitEmitter ==
    /\ InitNoTweens
    /\ Unused
    /\ ent = [o \in Particles \cup {EmitterId} |->
                IF o = EmitterId THEN NewEmitter ELSE NewParticle(1)]
    /\ scroll = <<0, 0>>
    /\ hooks = <<>>
    /\ result = NoResult
    /\ ticks = 0
    /\ lastOp = [op |-> "init", n |-> 0, o |-> ""]

NextEmitter ==
    \/ \E c \in Particles, d \in ParticleDurations : DoEmit(c, d)
    \/ \E ms \in EmitterTimes : EmitterUpdate(ms)

SpecEmitter == InitEmitter /\ [][NextEmitter]_vars

\* the children of the emitter
EmitterChildren(E) == {E[EmitterId].children[k] : k \in 1..Len(E[EmitterId].children)}

\* C28: in one Emitter.update every child has its duration decremented once,
\* and every child whose duration is then <= 0 is no longer a child after that
\* update, also when several children expire in the same frame.
C28_EveryChildDecremented ==
    [][lastOp'.op = "emitterUpdate"
       => \A c \in EmitterChildren(ent) :
             /\ ent'[c].duration = ent[c].duration - lastOp'.n
             /\ ent'[c].duration <= 0 => c \notin EmitterChildren(ent')]_vars

\* -------------------------------------------------------- Vector operators

\* Point(other) as the operators call it, other a tuple or a Point
PointOf(other) ==
    IF other.kind = "tuple"
    THEN IF Len(other.items) = 2 THEN [x |-> other.items[1], y |-> other.items[2]]
         ELSE [x |-> other.items[1], y |-> 0]
    ELSE [x |-> other.x, y |-> other.y]

\* Vector.__add__, Vector.__sub__
VectorAdd(v, other) ==
    Bind(PointOf(other), LAMBDA o : [x |-> v.x + o.x, y |-> v.y + o.y])

VectorSub(v, other) ==
    Bind(PointOf(other), LAMBDA o : [x |-> v.x - o.x, y |-> v.y - o.y])

\* Vector.__radd__, Vector.__rsub__: what other + v and other - v evaluate to
\* when other is a tuple or a Point
VectorRadd(v, other) == VectorAdd(v, other)

VectorRsub(v, other) == VectorSub(v, other)

\* a binary operator has made the vector r from the vector id and other
Operator(op, id, other, r) ==
    /\ Len(pt.heap) < MaxVectors
    /\ pt' = [heap |-> Append(pt.heap, r), ret |-> Len(pt.heap) + 1, error |-> ""]
    /\ result' = [op |-> op, other |-> PointOf(other)]
    /\ lastOp' = [op |-> op, n |-> id, o |-> ""]
    /\ UNCHANGED <<tweenVars, ent, scroll, hooks, ticks, qt, world, loop>>

\* v + t, v - t, t + v, t - v
Add(id, t) ==
    /\ id \in DOMAIN pt.heap
    /\ Operator("add", id, t, VectorAdd(pt.heap[id], t))

Sub(id, t) ==
    /\ id \in DOMAIN pt.heap
    /\ Operator("sub", id, t, VectorSub(pt.heap[id], t))

Radd(t, id) ==
    /\ id \in DOMAIN pt.heap
    /\ Operator("radd", id, t, VectorRadd(pt.heap[id], t))

Rsub(t, id) ==
    /\ id \in DOMAIN pt.heap
    /\ Operator("rsub", id, t, VectorRsub(pt.heap[id], t))

\* the left operands: a 2-tuple and a Point, in thousandths
Operands ==
    {[kind |-> "tuple", items |-> <<10000, 10000>>],
     [kind |-> "Point", x |-> -500, y |-> 250]}

NextOperators ==
    \E id \in 1..MaxVectors, t \in Operands :
        \/ Add(id, t)
        \/ Sub(id, t)
        \/ Radd(t, id)
        \/ Rsub(t, id)

SpecOperators == InitVector /\ [][NextOperators]_vars

\* C30: for a vector v and a 2-tuple or Point t, t + v is the componentwise
\* sum, as v + t is, and t - v is the componentwise difference
\* (t.x - v.x, t.y - v.y).
C30_ReflectedAgreeWithArithmetic ==
    [][/\ lastOp'.op = "radd"
          => pt'.heap[pt'.ret] = [x |-> result'.other.x + pt.heap[lastOp'.n].x,
                                  y |-> result'.other.y + pt.heap[lastOp'.n].y]
       /\ lastOp'.op = "rsub"
          => pt'.heap[pt'.ret] = [x |-> result'.other.x - pt.heap[lastOp'.n].x,
                                  y |-> result'.other.y - pt.heap[lastOp'.n].y]]_vars

=============================================================================
